---- MODULE Spec2Model ----
(***************************************************************************)
(* Verification model of the CASM Monte Carlo core (CASMcode_monte).       *)
(*                                                                         *)
(* Part 1: StateSampler -- step / pass / time counters, sample scheduling  *)
(* and data capture.                                                       *)
(*                                                                         *)
(* double values are modelled as exact rationals <<n, d>> with d > 0 kept  *)
(* in lowest terms; CountType values are integers.                         *)
(***************************************************************************)
EXTENDS Integers, Sequences, FiniteSets, TLC

\* ----------------------------------------------------------------------
\* Bounds of the model
\* ----------------------------------------------------------------------

\* increment_step calls explored after a reset
MaxSteps == 2

\* samples explored after a reset
MaxSamples == 1

\* largest n_accept + n_reject + number of pushed sample weights explored
MaxAccept == 1

\* uniform draws one stochastic_count_step call may consume in the model
MaxDraws == 2

\* increment_step calls explored by the sampling loop
MaxLoopSteps == 100

\* samples explored by the sampling loop
MaxLoopSamples == 5

\* increment_step calls and samples explored when the count-based due check
\* is called at any time
MaxCountSteps == 5
MaxCountSamples == 3

\* bounds of the runs of a StateSampler constructed from parsed parameters
MaxParsedSteps == 2
MaxParsedSamples == 2

\* ----------------------------------------------------------------------
\* Rational arithmetic (exact stand-in for double)
\* ----------------------------------------------------------------------

Abs(x) == IF x < 0 THEN -x ELSE x

RECURSIVE Gcd(_, _)
Gcd(a, b) == IF b = 0 THEN a ELSE Gcd(b, a % b)

Norm(n, d) ==
  LET g == Gcd(Abs(n), Abs(d))
      s == IF d < 0 THEN -1 ELSE 1
  IN  <<(s * n) \div g, (s * d) \div g>>

R(i) == <<i, 1>>
RAdd(x, y) == Norm(x[1] * y[2] + y[1] * x[2], x[2] * y[2])
RMul(x, y) == Norm(x[1] * y[1], x[2] * y[2])
RDiv(x, y) == Norm(x[1] * y[2], x[2] * y[1])
RLess(x, y) == x[1] * y[2] < y[1] * x[2]
RLeq(x, y) == x[1] * y[2] <= y[1] * x[2]

RECURSIVE IPow(_, _)
IPow(b, e) == IF e = 0 THEN 1 ELSE b * IPow(b, e - 1)

\* the positive integer r with r^k = a, or 0 if there is none
IRoot(a, k) ==
  IF \E r \in 1..a : IPow(r, k) = a
    THEN CHOOSE r \in 1..a : IPow(r, k) = a
    ELSE 0

\* std::pow(base, e) for a positive rational base and a rational exponent,
\* defined where the result is rational
HasPow(base, e) ==
  /\ IRoot(base[1], e[2]) # 0
  /\ IRoot(base[2], e[2]) # 0

StdPow(base, e) ==
  LET rn == IRoot(base[1], e[2])
      rd == IRoot(base[2], e[2])
  IN  IF e[1] >= 0
        THEN Norm(IPow(rn, e[1]), IPow(rd, e[1]))
        ELSE Norm(IPow(rd, -e[1]), IPow(rn, -e[1]))

\* std::round: to the nearest integer, halfway cases away from zero
StdRound(x) ==
  IF x[1] >= 0
    THEN (2 * x[1] + x[2]) \div (2 * x[2])
    ELSE -((2 * (-x[1]) + x[2]) \div (2 * x[2]))

\* conversion double -> CountType (truncation toward zero)
ToCount(x) ==
  IF x[1] >= 0 THEN x[1] \div x[2] ELSE -((-x[1]) \div x[2])

\* std::log for the periods used with LOG spacing, to six decimals
StdLog(x) ==
  CASE x = R(10) -> Norm(2302585, 1000000)
    [] x = R(4)  -> Norm(1386294, 1000000)
    [] x = R(2)  -> Norm(693147, 1000000)
    [] OTHER     -> R(1)

Last(s) == s[Len(s)]


\* ----------------------------------------------------------------------
\* StateSampler: state
\* ----------------------------------------------------------------------

VARIABLES
  \* sampling parameters (fixed at construction)
  sample_mode, sample_method, begin, period, samples_per_period, shift,
  stochastic_sample_period, do_sample_trajectory, do_sample_time, functions,
  \* step / pass / time tracking
  step, pass, steps_per_pass, count, time, n_accept, n_reject,
  next_sample_count, next_sample_time,
  \* sampled data
  samplers, sample_count, sample_time, sample_weight, sample_clocktime,
  sample_trajectory,
  \* outcome of the last call: "ok", "failed" (an exception left the call),
  \* "hung" (the call never returns)
  status,
  \* the uniform draws the last stochastic_count_step call consumed
  draws,
  \* number of increment_step calls since the last reset
  n_increment,
  \* position of the sampling loop ("free": no loop discipline)
  pc

\* OccLocation and the occupation vector it tracks
VARIABLES
  occupation, m_loc, m_atoms, m_mol, m_l_to_mol, m_update_atoms, m_tmol,
  \* the last event applied, the state it was applied to, and whether it
  \* has been applied ("applied") and then undone by its inverse ("undone")
  last_event, occ_before, occ_trip,
  \* number of apply calls since initialize
  n_apply

\* a run with one CompletionCheck: the parameters and results of the check,
\* the quantities it is called with, and the position of the run
VARIABLES
  m_params, m_results, run_count, run_time, run_clocktime, n_samples, run_pc

\* a call of kinetic_monte_carlo: the caller's kmc_data, the sampling
\* fixtures of run_manager, the atom positions occ_location reports, the
\* locals of the call and its position
VARIABLES
  kmc_data, sampling_fixtures, occ_positions, kmc_locals, kmc_pc,
  \* the fixture the fan-out of a sample_data_*_if_due call has reached
  kmc_cursor,
  \* number of events applied and of finalize calls in this call
  n_events, n_finalize,
  \* per fixture, the time and atom positions of its last sample in this call
  sampled_at,
  \* the sum of the time increments of the events applied in this call
  time_increments_sum

paramVars == <<sample_mode, sample_method, begin, period, samples_per_period,
               shift, stochastic_sample_period, do_sample_trajectory,
               do_sample_time, functions>>

counterVars == <<step, pass, steps_per_pass, count, time, n_accept, n_reject,
                 next_sample_count, next_sample_time>>

dataVars == <<samplers, sample_count, sample_time, sample_weight,
              sample_clocktime, sample_trajectory>>

\* every field of the StateSampler object
samplerVars == <<paramVars, counterVars, dataVars>>

\* what an operation of the StateSampler may change
opVars == <<samplerVars, status, draws, n_increment>>

\* every field of the OccLocation object, and the occupation vector
occLocationVars == <<occupation, m_loc, m_atoms, m_mol, m_l_to_mol,
                     m_update_atoms, m_tmol>>

occVars == <<occLocationVars, last_event, occ_before, occ_trip, n_apply>>

\* everything outside the StateSampler
runVars == <<m_params, m_results, run_count, run_time, run_clocktime,
             n_samples, run_pc>>

\* a call made while a run is set up (a parse of parameters, the
\* construction of a StateSampler, a requested-precision helper,
\* make_analysis): the call, its arguments and, once it has returned or
\* thrown, its outcome
VARIABLE setup

kmcVars == <<kmc_data, sampling_fixtures, occ_positions, kmc_locals, kmc_pc,
             kmc_cursor, n_events, n_finalize, sampled_at,
             time_increments_sum>>

restVars == <<occVars, runVars, kmcVars, setup>>

vars == <<opVars, pc, restVars>>

\* no OccLocation has been constructed
OccIdle ==
  /\ occupation = <<>>
  /\ m_loc = <<>>
  /\ m_atoms = <<>>
  /\ m_mol = <<>>
  /\ m_l_to_mol = <<>>
  /\ m_update_atoms = FALSE
  /\ m_tmol = <<>>
  /\ last_event = <<>>
  /\ occ_before = <<>>
  /\ occ_trip = "none"
  /\ n_apply = 0

\* no run has been set up
RunIdle ==
  /\ m_params = <<>>
  /\ m_results = <<>>
  /\ run_count = 0
  /\ run_time = 0
  /\ run_clocktime = 0
  /\ n_samples = 0
  /\ run_pc = "idle"

\* kinetic_monte_carlo has not been called
KmcIdle ==
  /\ kmc_data = <<>>
  /\ sampling_fixtures = <<>>
  /\ occ_positions = 0
  /\ kmc_locals = <<>>
  /\ kmc_pc = "idle"
  /\ kmc_cursor = 0
  /\ n_events = 0
  /\ time_increments_sum = 0
  /\ n_finalize = 0
  /\ sampled_at = <<>>

\* no setup call is being made
SetupIdle == setup = [call |-> "none"]

RestIdle == OccIdle /\ RunIdle /\ KmcIdle /\ SetupIdle

\* ----------------------------------------------------------------------
\* Inputs
\* ----------------------------------------------------------------------

SAMPLE_MODE == {"BY_STEP", "BY_PASS", "BY_TIME"}
SAMPLE_METHOD == {"LINEAR", "LOG"}

\* a sampling schedule: the parameters sample_at reads
Schedule(method, b, p, spp, sh, stochastic) ==
  [sample_method |-> method, begin |-> b, period |-> p,
   samples_per_period |-> spp, shift |-> sh,
   stochastic_sample_period |-> stochastic]

\* the schedules a StateSampler is constructed with
Schedules ==
  { Schedule("LINEAR", R(0), R(1), R(2), R(0), FALSE),
    Schedule("LINEAR", <<1, 2>>, R(2), R(1), R(0), FALSE),
    Schedule("LINEAR", R(-1), R(1), R(1), R(0), FALSE),
    Schedule("LINEAR", R(0), R(2), R(1), R(0), TRUE),
    Schedule("LOG", R(0), R(4), R(2), R(-1), FALSE),
    Schedule("LOG", R(0), R(2), R(1), R(0), TRUE) }

\* what is recorded per sample: the sampling functions, by name (a name may
\* occur twice), and do_sample_trajectory
DataLayout(fs, trajectory) ==
  [functions |-> fs, do_sample_trajectory |-> trajectory]

DataLayouts ==
  { DataLayout(<<"a">>, TRUE),
    DataLayout(<<"a", "b">>, FALSE),
    DataLayout(<<"a", "a">>, FALSE),
    DataLayout(<<>>, FALSE) }

\* the layout every schedule is run with; the other layouts are run with
\* the first schedule
PlainLayout == DataLayout(<<"a">>, TRUE)
PlainSchedule == Schedule("LINEAR", R(0), R(1), R(2), R(0), FALSE)

\* arguments of reset(double _steps_per_pass)
StepsPerPassArgs == {R(1), <<5, 2>>}

\* event times handed to set_time and sample_data_by_time_if_due
EventTimes == {R(0), R(1)}

\* values of random_real(1.0), in [0, 1)
DrawValues == {R(0), <<1, 2>>}

\* streams of uniform draws
Streams == [1..MaxDraws -> DrawValues]

\* values of -std::log(random_real(1.0))
NegLogDraws == {<<1, 2>>, R(1)}

\* log.time_s(): the wall clock reading, one abstract value
LogTimeS == 0

\* state.configuration: the configuration is owned by the driver
Configuration == "configuration"


\* ----------------------------------------------------------------------
\* StateSampler: scheduling
\* ----------------------------------------------------------------------

\* stochastic_count_step: dn starts at 1 and is incremented after every draw
\* that is not smaller than sample_rate; the result is the dn of the first
\* draw smaller than sample_rate, 0 if the stream holds no such draw (the
\* loop is still running at the end of the stream)
RECURSIVE count_step_loop(_, _, _)
count_step_loop(sample_rate, stream, dn) ==
  IF dn > Len(stream) THEN 0
  ELSE IF RLess(stream[dn], sample_rate) THEN dn
  ELSE count_step_loop(sample_rate, stream, dn + 1)

\* variant: accepts a draw equal to sample_rate (<= in place of <)
RECURSIVE count_step_loop_leq(_, _, _)
count_step_loop_leq(sample_rate, stream, dn) ==
  IF dn > Len(stream) THEN 0
  ELSE IF RLeq(stream[dn], sample_rate) THEN dn
  ELSE count_step_loop_leq(sample_rate, stream, dn + 1)

stochastic_count_step_leq(sample_rate, stream) ==
  count_step_loop_leq(sample_rate, stream, 1)

stochastic_count_step(sample_rate, stream) ==
  count_step_loop(sample_rate, stream, 1)

\* stochastic_time_step: -std::log(random_real(1.0)) / sample_rate
stochastic_time_step(sample_rate, neg_log_draw) ==
  RDiv(neg_log_draw, sample_rate)

\* the rate computed by sample_at under stochastic_sample_period
sample_rate_at(sample_index) ==
  LET n == R(sample_index)
  IN  IF sample_method = "LINEAR"
        THEN RDiv(R(1), RDiv(period, samples_per_period))
        ELSE RDiv(R(1),
                  RDiv(RMul(StdLog(period),
                            StdPow(period,
                                   RDiv(RAdd(n, shift), samples_per_period))),
                       samples_per_period))

\* variant: LINEAR spacing multiplies period by samples_per_period
sample_at_linear_product(sample_index, sc, st, stream, neg_log_draw) ==
  IF stochastic_sample_period
    THEN IF sample_index = 0
           THEN begin
           ELSE IF sample_mode = "BY_TIME"
                  THEN RAdd(Last(st),
                            stochastic_time_step(sample_rate_at(sample_index),
                                                 neg_log_draw))
                  ELSE RAdd(R(Last(sc)),
                            R(stochastic_count_step(
                                sample_rate_at(sample_index), stream)))
    ELSE LET n == R(sample_index)
         IN  IF sample_method = "LINEAR"
               THEN RAdd(begin, RMul(RMul(period, samples_per_period), n))
               ELSE RAdd(begin,
                         StdPow(period,
                                RDiv(RAdd(n, shift), samples_per_period)))

\* variant: LOG spacing leaves shift out of the exponent
sample_at_log_no_shift(sample_index, sc, st, stream, neg_log_draw) ==
  IF stochastic_sample_period
    THEN IF sample_index = 0
           THEN begin
           ELSE IF sample_mode = "BY_TIME"
                  THEN RAdd(Last(st),
                            stochastic_time_step(sample_rate_at(sample_index),
                                                 neg_log_draw))
                  ELSE RAdd(R(Last(sc)),
                            R(stochastic_count_step(
                                sample_rate_at(sample_index), stream)))
    ELSE LET n == R(sample_index)
         IN  IF sample_method = "LINEAR"
               THEN RAdd(begin, RMul(RDiv(period, samples_per_period), n))
               ELSE RAdd(begin, StdPow(period, RDiv(n, samples_per_period)))

\* variant: under stochastic_sample_period the step drawn is added to
\* begin, not to the count or time of the last sample
sample_at_stochastic_from_begin(sample_index, sc, st, stream, neg_log_draw) ==
  IF stochastic_sample_period
    THEN IF sample_index = 0
           THEN begin
           ELSE IF sample_mode = "BY_TIME"
                  THEN RAdd(begin,
                            stochastic_time_step(sample_rate_at(sample_index),
                                                 neg_log_draw))
                  ELSE RAdd(begin,
                            R(stochastic_count_step(
                                sample_rate_at(sample_index), stream)))
    ELSE LET n == R(sample_index)
         IN  IF sample_method = "LINEAR"
               THEN RAdd(begin, RMul(RDiv(period, samples_per_period), n))
               ELSE RAdd(begin,
                         StdPow(period,
                                RDiv(RAdd(n, shift), samples_per_period)))

\* sample_at(sample_index), evaluated with sample_count = sc and
\* sample_time = st, the stream of uniform draws and the value of
\* -log(random_real) it would consume; the result is a double
sample_at(sample_index, sc, st, stream, neg_log_draw) ==
  IF stochastic_sample_period
    THEN IF sample_index = 0
           THEN begin
           ELSE IF sample_mode = "BY_TIME"
                  THEN RAdd(Last(st),
                            stochastic_time_step(sample_rate_at(sample_index),
                                                 neg_log_draw))
                  ELSE RAdd(R(Last(sc)),
                            R(stochastic_count_step(
                                sample_rate_at(sample_index), stream)))
    ELSE LET n == R(sample_index)
         IN  IF sample_method = "LINEAR"
               THEN RAdd(begin, RMul(RDiv(period, samples_per_period), n))
               ELSE RAdd(begin,
                         StdPow(period,
                                RDiv(RAdd(n, shift), samples_per_period)))

\* sample_at calls stochastic_count_step
UsesCountStep(sample_index) ==
  stochastic_sample_period /\ sample_index # 0 /\ sample_mode # "BY_TIME"

\* sample_at calls stochastic_time_step
UsesTimeStep(sample_index) ==
  stochastic_sample_period /\ sample_index # 0 /\ sample_mode = "BY_TIME"

\* the draws stochastic_count_step consumed from the stream
Consumed(sample_index, stream) ==
  IF UsesCountStep(sample_index)
    THEN SubSeq(stream, 1,
                stochastic_count_step(sample_rate_at(sample_index), stream))
    ELSE <<>>

\* ----------------------------------------------------------------------
\* StateSampler: reset
\* ----------------------------------------------------------------------

\* one empty Sampler per function name (std::map::emplace keeps the first)
empty_samplers(fs) ==
  [name \in {fs[i] : i \in DOMAIN fs} |-> <<>>]

\* variant: reset leaving both targets at zero instead of sample_at(0)
reset_without_schedule(_steps_per_pass) ==
  [steps_per_pass    |-> ToCount(_steps_per_pass),
   step              |-> 0,
   pass              |-> 0,
   count             |-> 0,
   time              |-> R(0),
   n_accept          |-> 0,
   n_reject          |-> 0,
   samplers          |-> empty_samplers(functions),
   sample_count      |-> <<>>,
   sample_time       |-> <<>>,
   sample_weight     |-> <<>>,
   sample_clocktime  |-> <<>>,
   sample_trajectory |-> <<>>,
   next_sample_count |-> 0,
   next_sample_time  |-> R(0),
   throws            |->
     IF sample_mode = "BY_TIME"
       THEN RLess(sample_at(0, <<>>, <<>>, <<>>, R(1)), R(0))
       ELSE StdRound(sample_at(0, <<>>, <<>>, <<>>, R(1))) < 0]

\* the fields reset(_steps_per_pass) assigns, and whether it throws
reset(_steps_per_pass) ==
  [steps_per_pass    |-> ToCount(_steps_per_pass),
   step              |-> 0,
   pass              |-> 0,
   count             |-> 0,
   time              |-> R(0),
   n_accept          |-> 0,
   n_reject          |-> 0,
   samplers          |-> empty_samplers(functions),
   sample_count      |-> <<>>,
   sample_time       |-> <<>>,
   sample_weight     |-> <<>>,
   sample_clocktime  |-> <<>>,
   sample_trajectory |-> <<>>,
   next_sample_count |->
     IF sample_mode = "BY_TIME" THEN 0
     ELSE StdRound(sample_at(0, <<>>, <<>>, <<>>, R(1))),
   next_sample_time  |->
     IF sample_mode = "BY_TIME" THEN sample_at(0, <<>>, <<>>, <<>>, R(1))
     ELSE R(0),
   throws            |->
     IF sample_mode = "BY_TIME"
       THEN RLess(sample_at(0, <<>>, <<>>, <<>>, R(1)), R(0))
       ELSE StdRound(sample_at(0, <<>>, <<>>, <<>>, R(1))) < 0]


\* ----------------------------------------------------------------------
\* StateSampler: construction
\* ----------------------------------------------------------------------

\* the parameters a StateSampler is constructed with
InitParams ==
  /\ sample_mode \in SAMPLE_MODE
  /\ \E sch \in Schedules :
       /\ sample_method = sch.sample_method
       /\ begin = sch.begin
       /\ period = sch.period
       /\ samples_per_period = sch.samples_per_period
       /\ shift = sch.shift
       /\ stochastic_sample_period = sch.stochastic_sample_period
  /\ do_sample_time \in BOOLEAN
  /\ \E layout \in DataLayouts :
       /\ functions = layout.functions
       /\ do_sample_trajectory = layout.do_sample_trajectory
       /\ layout = PlainLayout \/ sample_method = PlainSchedule.sample_method
       /\ layout = PlainLayout \/ begin = PlainSchedule.begin
       /\ layout = PlainLayout \/ period = PlainSchedule.period
       /\ layout = PlainLayout \/ stochastic_sample_period = FALSE
       /\ layout = PlainLayout \/ do_sample_time = FALSE

\* the constructor ends with reset(1.0); an exception leaves no object
Constructed ==
  LET r == reset(R(1))
  IN  /\ steps_per_pass = r.steps_per_pass
      /\ step = r.step
      /\ pass = r.pass
      /\ count = r.count
      /\ time = r.time
      /\ n_accept = r.n_accept
      /\ n_reject = r.n_reject
      /\ samplers = r.samplers
      /\ sample_count = r.sample_count
      /\ sample_time = r.sample_time
      /\ sample_weight = r.sample_weight
      /\ sample_clocktime = r.sample_clocktime
      /\ sample_trajectory = r.sample_trajectory
      /\ next_sample_count = r.next_sample_count
      /\ next_sample_time = r.next_sample_time
      /\ status = IF r.throws THEN "unconstructed" ELSE "ok"
      /\ draws = <<>>
      /\ n_increment = 0

Init ==
  /\ InitParams
  /\ Constructed
  /\ pc = "free"
  /\ RestIdle

\* ----------------------------------------------------------------------
\* StateSampler: operations
\* ----------------------------------------------------------------------

\* the bounds in force
StepBound ==
  IF pc = "free" THEN MaxSteps
  ELSE IF pc = "count" THEN MaxCountSteps
  ELSE IF pc = "parsed" THEN MaxParsedSteps ELSE MaxLoopSteps
SampleBound ==
  IF pc = "free" THEN MaxSamples
  ELSE IF pc = "count" THEN MaxCountSamples
  ELSE IF pc = "parsed" THEN MaxParsedSamples ELSE MaxLoopSamples

\* void reset(double _steps_per_pass)
Reset(_steps_per_pass) ==
  LET r == reset(_steps_per_pass)
  IN  /\ status \in {"ok", "failed"}
      /\ steps_per_pass' = r.steps_per_pass
      /\ step' = r.step
      /\ pass' = r.pass
      /\ count' = r.count
      /\ time' = r.time
      /\ n_accept' = r.n_accept
      /\ n_reject' = r.n_reject
      /\ samplers' = r.samplers
      /\ sample_count' = r.sample_count
      /\ sample_time' = r.sample_time
      /\ sample_weight' = r.sample_weight
      /\ sample_clocktime' = r.sample_clocktime
      /\ sample_trajectory' = r.sample_trajectory
      /\ next_sample_count' = r.next_sample_count
      /\ next_sample_time' = r.next_sample_time
      /\ status' = IF r.throws THEN "failed" ELSE "ok"
      /\ draws' = <<>>
      /\ n_increment' = 0
      /\ UNCHANGED paramVars

\* variant: increment_step without `step = 0` at the end of a pass
increment_step_no_wrap ==
  LET step1  == step + 1
      count1 == IF sample_mode = "BY_STEP" THEN count + 1 ELSE count
  IN  IF step1 = steps_per_pass
        THEN /\ pass' = pass + 1
             /\ count' = IF sample_mode # "BY_STEP" THEN count1 + 1
                                                    ELSE count1
             /\ step' = step1
        ELSE /\ pass' = pass
             /\ count' = count1
             /\ step' = step1

\* void increment_step()
increment_step ==
  LET step1  == step + 1
      count1 == IF sample_mode = "BY_STEP" THEN count + 1 ELSE count
  IN  IF step1 = steps_per_pass
        THEN /\ pass' = pass + 1
             /\ count' = IF sample_mode # "BY_STEP" THEN count1 + 1
                                                    ELSE count1
             /\ step' = 0
        ELSE /\ pass' = pass
             /\ count' = count1
             /\ step' = step1

IncrementStep ==
  /\ status = "ok"
  /\ n_increment < StepBound
  /\ increment_step
  /\ n_increment' = n_increment + 1
  /\ UNCHANGED <<paramVars, steps_per_pass, time, n_accept, n_reject,
                 next_sample_count, next_sample_time, dataVars, status, draws>>

\* void set_time(double event_time)
SetTime(event_time) ==
  /\ status = "ok"
  /\ time' = event_time
  /\ UNCHANGED <<paramVars, step, pass, steps_per_pass, count, n_accept,
                 n_reject, next_sample_count, next_sample_time, dataVars,
                 status, draws, n_increment>>

\* void increment_n_accept()
IncrementNAccept ==
  /\ status = "ok"
  /\ n_accept + n_reject + Len(sample_weight) < MaxAccept
  /\ n_accept' = n_accept + 1
  /\ UNCHANGED <<paramVars, step, pass, steps_per_pass, count, time,
                 n_reject, next_sample_count, next_sample_time, dataVars,
                 status, draws, n_increment>>

\* void increment_n_reject()
IncrementNReject ==
  /\ status = "ok"
  /\ n_accept + n_reject + Len(sample_weight) < MaxAccept
  /\ n_reject' = n_reject + 1
  /\ UNCHANGED <<paramVars, step, pass, steps_per_pass, count, time,
                 n_accept, next_sample_count, next_sample_time, dataVars,
                 status, draws, n_increment>>

\* void push_back_sample_weight(double weight)
PushBackSampleWeight(weight) ==
  /\ status = "ok"
  /\ n_accept + n_reject + Len(sample_weight) < MaxAccept
  /\ sample_weight' = Append(sample_weight, weight)
  /\ UNCHANGED <<paramVars, counterVars, samplers, sample_count, sample_time,
                 sample_clocktime, sample_trajectory, status, draws,
                 n_increment>>


\* ----------------------------------------------------------------------
\* StateSampler: taking samples
\* ----------------------------------------------------------------------

\* the value a sampling function returns: an observation of the live state
Observation == count

\* for (function : functions) samplers.at(function.name)->push_back(...)
RECURSIVE push_back_all(_, _, _)
push_back_all(smap, fs, value) ==
  IF fs = <<>> THEN smap
  ELSE push_back_all([smap EXCEPT ![Head(fs)] = Append(@, value)],
                     Tail(fs), value)

\* the sample index sample_data hands to sample_at, with sample_count = sc
\* and sample_time = st
target_index(sc, st) ==
  IF sample_mode = "BY_TIME" THEN Len(st) ELSE Len(sc)

\* sample_data's containers after its push_backs
pushed_sample_count == Append(sample_count, count)
pushed_sample_time ==
  IF do_sample_time THEN Append(sample_time, time) ELSE sample_time

\* variant: the schedule check accepts a target equal to the position
schedule_violation_strict(next_time, next_count) ==
  IF sample_mode = "BY_TIME"
    THEN RLess(next_time, time)
    ELSE next_count < count

\* sample_data's schedule check: the call throws
schedule_violation(next_time, next_count) ==
  IF sample_mode = "BY_TIME"
    THEN RLeq(next_time, time)
    ELSE next_count <= count

\* variant: the next target is computed and checked before the sample is
\* recorded, and a call that throws leaves the StateSampler as it was
sample_data_checked_first(stream, neg_log_draw) ==
  LET sc    == pushed_sample_count
      st    == pushed_sample_time
      idx   == target_index(sc, st)
      hangs == /\ UsesCountStep(idx)
               /\ stochastic_count_step(sample_rate_at(idx), stream) = 0
      at    == sample_at(idx, sc, st, stream, neg_log_draw)
      next_time  == IF sample_mode = "BY_TIME" THEN at ELSE next_sample_time
      next_count == IF sample_mode = "BY_TIME" THEN next_sample_count
                    ELSE StdRound(at)
  IN  /\ IF hangs
           THEN /\ ~RLess(R(0), sample_rate_at(idx))
                /\ status' = "hung"
                /\ UNCHANGED <<dataVars, next_sample_count, next_sample_time>>
           ELSE IF schedule_violation(next_time, next_count)
             THEN /\ status' = "failed"
                  /\ UNCHANGED <<dataVars, next_sample_count,
                                 next_sample_time>>
             ELSE /\ sample_count' = sc
                  /\ sample_time' = st
                  /\ sample_clocktime' = Append(sample_clocktime, LogTimeS)
                  /\ sample_trajectory' =
                       IF do_sample_trajectory
                         THEN Append(sample_trajectory, Configuration)
                         ELSE sample_trajectory
                  /\ samplers' = push_back_all(samplers, functions, Observation)
                  /\ sample_weight' = sample_weight
                  /\ next_sample_time' = next_time
                  /\ next_sample_count' = next_count
                  /\ status' = "ok"
      /\ draws' = IF UsesCountStep(idx) THEN Consumed(idx, stream) ELSE draws
      /\ UNCHANGED <<paramVars, step, pass, steps_per_pass, count, time,
                     n_accept, n_reject, n_increment>>

\* void sample_data(state, log), consuming the given random draws
sample_data(stream, neg_log_draw) ==
  LET sc    == pushed_sample_count
      st    == pushed_sample_time
      idx   == target_index(sc, st)
      hangs == /\ UsesCountStep(idx)
               /\ stochastic_count_step(sample_rate_at(idx), stream) = 0
      at    == sample_at(idx, sc, st, stream, neg_log_draw)
  IN  /\ sample_count' = sc
      /\ sample_time' = st
      /\ sample_clocktime' = Append(sample_clocktime, LogTimeS)
      /\ sample_trajectory' =
           IF do_sample_trajectory
             THEN Append(sample_trajectory, Configuration)
             ELSE sample_trajectory
      /\ samplers' = push_back_all(samplers, functions, Observation)
      /\ IF hangs
           THEN \* the draw loop does not end: possible only for a rate the
                \* draws can never fall below
                /\ ~RLess(R(0), sample_rate_at(idx))
                /\ status' = "hung"
                /\ UNCHANGED <<next_sample_count, next_sample_time>>
           ELSE /\ next_sample_time' =
                     IF sample_mode = "BY_TIME" THEN at ELSE next_sample_time
                /\ next_sample_count' =
                     IF sample_mode = "BY_TIME" THEN next_sample_count
                     ELSE StdRound(at)
                /\ status' =
                     IF schedule_violation(next_sample_time',
                                           next_sample_count')
                       THEN "failed" ELSE "ok"
      /\ draws' = IF UsesCountStep(idx) THEN Consumed(idx, stream) ELSE draws
      /\ UNCHANGED <<paramVars, step, pass, steps_per_pass, count, time,
                     n_accept, n_reject, sample_weight, n_increment>>

\* sample_data with every random outcome it may meet
sample_data_any ==
  LET idx == target_index(pushed_sample_count, pushed_sample_time)
  IN  /\ Len(sample_count) < SampleBound
      /\ \E stream \in (IF UsesCountStep(idx) THEN Streams ELSE {<<>>}) :
         \E neg_log_draw \in (IF UsesTimeStep(idx) THEN NegLogDraws
                                                   ELSE {R(1)}) :
           sample_data(stream, neg_log_draw)

SampleData ==
  /\ status = "ok"
  /\ sample_data_any

\* variant: due as soon as count has reached next_sample_count
count_is_due_at_least ==
  sample_mode # "BY_TIME" /\ count >= next_sample_count

\* variant: the due check is made only when sampling by step
count_is_due_by_step_only ==
  sample_mode = "BY_STEP" /\ count = next_sample_count

\* sample_data_by_count_if_due: the condition of its if
count_is_due ==
  sample_mode # "BY_TIME" /\ count = next_sample_count

\* void sample_data_by_count_if_due(state, log)
SampleDataByCountIfDue ==
  /\ status = "ok"
  /\ IF count_is_due
       THEN sample_data_any
       ELSE UNCHANGED opVars

\* sample_data_by_time_if_due: the condition of its if
time_is_due(event_time) ==
  sample_mode # "BY_TIME" /\ RLeq(next_sample_time, event_time)

\* void sample_data_by_time_if_due(state, event_time, log)
SampleDataByTimeIfDue(event_time) ==
  /\ status = "ok"
  /\ IF time_is_due(event_time)
       THEN sample_data_any
       ELSE UNCHANGED opVars

\* ----------------------------------------------------------------------
\* StateSampler: specification (operations called in any order)
\* ----------------------------------------------------------------------

Next ==
  \/ \E s \in StepsPerPassArgs : Reset(s) /\ UNCHANGED <<pc, restVars>>
  \/ IncrementStep /\ UNCHANGED <<pc, restVars>>
  \/ \E t \in EventTimes : SetTime(t) /\ UNCHANGED <<pc, restVars>>
  \/ IncrementNAccept /\ UNCHANGED <<pc, restVars>>
  \/ IncrementNReject /\ UNCHANGED <<pc, restVars>>
  \/ PushBackSampleWeight(R(1)) /\ UNCHANGED <<pc, restVars>>
  \/ SampleData /\ UNCHANGED <<pc, restVars>>
  \/ SampleDataByCountIfDue /\ UNCHANGED <<pc, restVars>>
  \/ \E t \in EventTimes : SampleDataByTimeIfDue(t) /\ UNCHANGED <<pc, restVars>>

Spec == Init /\ [][Next]_vars

\* ----------------------------------------------------------------------
\* The sampling loop: reset, then the count-based due check after the reset
\* and after every increment_step
\* ----------------------------------------------------------------------

LoopSchedules ==
  { Schedule("LINEAR", R(0), R(10), R(2), R(0), FALSE),
    Schedule("LINEAR", <<1, 2>>, R(2), R(1), R(0), FALSE),
    Schedule("LINEAR", R(0), R(1), R(2), R(0), FALSE),
    Schedule("LINEAR", R(1), R(3), R(2), R(0), FALSE),
    Schedule("LOG", R(0), R(10), R(1), R(0), FALSE),
    Schedule("LOG", R(0), R(4), R(2), R(-1), FALSE),
    Schedule("LOG", R(1), R(2), R(1), R(1), FALSE) }

LoopStepsPerPass == {R(1), R(2)}

InitLoop ==
  /\ sample_mode \in SAMPLE_MODE
  /\ \E sch \in LoopSchedules :
       /\ sample_method = sch.sample_method
       /\ begin = sch.begin
       /\ period = sch.period
       /\ samples_per_period = sch.samples_per_period
       /\ shift = sch.shift
       /\ stochastic_sample_period = sch.stochastic_sample_period
  /\ do_sample_time \in BOOLEAN
  /\ functions = PlainLayout.functions
  /\ do_sample_trajectory = PlainLayout.do_sample_trajectory
  /\ Constructed
  /\ pc = "reset"
  /\ RestIdle

LoopReset ==
  /\ pc = "reset"
  /\ \E s \in LoopStepsPerPass : Reset(s)
  /\ pc' = "check"
  /\ UNCHANGED restVars

LoopCheck ==
  /\ pc = "check"
  /\ SampleDataByCountIfDue
  /\ pc' = "step"
  /\ UNCHANGED restVars

LoopStep ==
  /\ pc = "step"
  /\ IncrementStep
  /\ pc' = "check"
  /\ UNCHANGED restVars

NextLoop == LoopReset \/ LoopCheck \/ LoopStep

SpecLoop == InitLoop /\ [][NextLoop]_vars


\* ----------------------------------------------------------------------
\* Count-based sampling: reset, increment_step and the count-based due
\* check called in any order; no other call takes a sample
\* ----------------------------------------------------------------------

CountSchedules ==
  { Schedule("LINEAR", R(0), R(1), R(1), R(0), FALSE),
    Schedule("LINEAR", <<1, 2>>, R(2), R(1), R(0), FALSE),
    Schedule("LINEAR", R(0), R(1), R(2), R(0), FALSE),
    Schedule("LOG", R(0), R(2), R(1), R(0), FALSE),
    Schedule("LINEAR", R(0), R(2), R(1), R(0), TRUE) }

InitCount ==
  /\ sample_mode \in SAMPLE_MODE
  /\ \E sch \in CountSchedules :
       /\ sample_method = sch.sample_method
       /\ begin = sch.begin
       /\ period = sch.period
       /\ samples_per_period = sch.samples_per_period
       /\ shift = sch.shift
       /\ stochastic_sample_period = sch.stochastic_sample_period
  /\ do_sample_time = FALSE
  /\ functions = PlainLayout.functions
  /\ do_sample_trajectory = PlainLayout.do_sample_trajectory
  /\ Constructed
  /\ pc = "count"
  /\ RestIdle

NextCount ==
  \/ \E s \in LoopStepsPerPass : Reset(s) /\ UNCHANGED <<pc, restVars>>
  \/ IncrementStep /\ UNCHANGED <<pc, restVars>>
  \/ SampleDataByCountIfDue /\ UNCHANGED <<pc, restVars>>

SpecCount == InitCount /\ [][NextCount]_vars

\* ----------------------------------------------------------------------
\* Properties of the StateSampler
\* ----------------------------------------------------------------------

NSamples == Len(sample_count)

\* a step in which sample_data ran
SampleTaken == Len(sample_count') = Len(sample_count) + 1

\* C1: after reset(s) with s >= 1 and k increment_step calls, step = k mod s,
\* pass = k div s, and count = k when sampling BY_STEP, count = pass when
\* sampling BY_PASS or BY_TIME.
C1_CountersFollowSteps ==
  (status # "unconstructed" /\ steps_per_pass >= 1) =>
    /\ step = n_increment % steps_per_pass
    /\ 0 <= step /\ step < steps_per_pass
    /\ pass = n_increment \div steps_per_pass
    /\ count = IF sample_mode = "BY_STEP" THEN n_increment ELSE pass

C1_Witness ==
  /\ steps_per_pass = 2
  /\ n_increment = 2
  /\ pass = 1
  /\ step = 0
  /\ sample_mode = "BY_PASS"
  /\ count = 1

\* C2: sample_data_by_time_if_due(event_time) takes a sample exactly when
\* sample_mode is BY_TIME and event_time >= next_sample_time, with time set to
\* next_sample_time before the sample is taken; in BY_STEP and BY_PASS mode it
\* takes no sample.
C2_SamplesByTimeWhenDue ==
  [][\A t \in EventTimes :
       SampleDataByTimeIfDue(t) =>
         IF sample_mode = "BY_TIME" /\ RLeq(next_sample_time, t)
           THEN /\ SampleTaken
                /\ time' = next_sample_time
           ELSE UNCHANGED dataVars]_vars

\* C3: sample_data_by_count_if_due runs sample_data once exactly when
\* sample_mode is not BY_TIME and count equals next_sample_count; in every
\* other case it leaves the whole StateSampler unchanged.
C3_SamplesByCountWhenDue ==
  [][SampleDataByCountIfDue =>
       IF sample_mode # "BY_TIME" /\ count = next_sample_count
         THEN SampleTaken
         ELSE UNCHANGED samplerVars]_vars

C3_Witness ==
  /\ sample_mode = "BY_STEP"
  /\ sample_count = <<1>>
  /\ next_sample_count = 3
  /\ count = 1
  /\ status = "ok"

\* the next target is strictly ahead of the current position
TargetAhead ==
  IF sample_mode = "BY_TIME"
    THEN RLess(time, next_sample_time)
    ELSE count < next_sample_count

\* C4: a sample_data call that returns normally leaves the next target
\* strictly ahead of the current position (next_sample_count > count, or
\* next_sample_time > time in BY_TIME mode); when the recomputed target is
\* not strictly ahead the call fails instead of returning.
C4_ReturnsOnlyWithTargetAhead ==
  [][SampleTaken =>
       /\ status' = "ok" => TargetAhead'
       /\ (status' # "hung" /\ ~TargetAhead') => status' = "failed"]_vars

C4_Witness ==
  /\ status = "failed"
  /\ sample_mode = "BY_PASS"
  /\ NSamples = 1
  /\ next_sample_count <= count

\* C5: sample_count, sample_clocktime and every Sampler in samplers hold the
\* same number of entries, one per sample taken; so does sample_time when
\* do_sample_time is set and sample_trajectory when do_sample_trajectory is
\* set.
C5_ContainersAligned ==
  status # "unconstructed" =>
    /\ Len(sample_clocktime) = NSamples
    /\ \A name \in DOMAIN samplers : Len(samplers[name]) = NSamples
    /\ do_sample_time => Len(sample_time) = NSamples
    /\ do_sample_trajectory => Len(sample_trajectory) = NSamples

\* the deterministic schedule of the documentation: the n-th sample target
ScheduleAt(n) ==
  IF sample_method = "LINEAR"
    THEN RAdd(begin, RMul(RDiv(period, samples_per_period), R(n)))
    ELSE RAdd(begin,
              StdPow(period, RDiv(RAdd(R(n), shift), samples_per_period)))

\* C6: sample_data recomputes the next target from the schedule at n = the
\* number of samples taken so far (the one just recorded included), in every
\* sample mode and whether or not do_sample_time is set.
C6_TargetUsesNumberOfSamples ==
  (NSamples > 0 /\ status \in {"ok", "failed"}) =>
    /\ target_index(sample_count, sample_time) = NSamples
    /\ ~stochastic_sample_period =>
         IF sample_mode = "BY_TIME"
           THEN next_sample_time = ScheduleAt(NSamples)
           ELSE next_sample_count = StdRound(ScheduleAt(NSamples))

\* sample_by = pass, period = 10, samples_per_period = 2, begin = 0
IsLinearExample ==
  /\ sample_mode = "BY_PASS"
  /\ sample_method = "LINEAR"
  /\ begin = R(0) /\ period = R(10) /\ samples_per_period = R(2)
  /\ ~stochastic_sample_period

\* C7: with deterministic LINEAR spacing in BY_STEP or BY_PASS mode and the
\* due check run after reset and after every increment_step, the n-th sample
\* is taken at count round(begin + (period / samples_per_period) * n); for
\* sample_by = pass, period = 10, samples_per_period = 2, begin = 0 the
\* successive next_sample_count values are 0, 5, 10, 15, 20.
C7_LinearSchedule ==
  (pc \in {"check", "step"} /\ sample_method = "LINEAR"
     /\ ~stochastic_sample_period /\ sample_mode # "BY_TIME") =>
    /\ \A i \in 1..NSamples :
         sample_count[i] =
           StdRound(RAdd(begin,
                         RMul(RDiv(period, samples_per_period), R(i - 1))))
    /\ IsLinearExample =>
         /\ next_sample_count = 5 * NSamples
         /\ \A i \in 1..NSamples : sample_count[i] = 5 * (i - 1)

C7_Witness ==
  /\ IsLinearExample
  /\ pc = "step"
  /\ sample_count = <<0, 5, 10, 15>>
  /\ next_sample_count = 20
  /\ status = "ok"

\* sample_by = pass, spacing = log, period = 10, samples_per_period = 1,
\* shift = 0, begin = 0
IsLogExample ==
  /\ sample_mode = "BY_PASS"
  /\ sample_method = "LOG"
  /\ begin = R(0) /\ period = R(10) /\ samples_per_period = R(1)
  /\ shift = R(0)
  /\ ~stochastic_sample_period

\* C8: with deterministic LOG spacing in BY_STEP or BY_PASS mode the n-th
\* sample target is round(begin + period^((n + shift) / samples_per_period));
\* for sample_by = pass, period = 10, samples_per_period = 1, shift = 0,
\* begin = 0 the successive next_sample_count values are 1, 10, 100, 1000 and
\* no schedule violation is raised along the way.
C8_LogSchedule ==
  (pc \in {"check", "step"} /\ sample_method = "LOG"
     /\ ~stochastic_sample_period /\ sample_mode # "BY_TIME") =>
    /\ \A i \in 1..NSamples :
         sample_count[i] =
           StdRound(RAdd(begin,
                         StdPow(period,
                                RDiv(RAdd(R(i - 1), shift),
                                     samples_per_period))))
    /\ IsLogExample =>
         /\ next_sample_count = IPow(10, NSamples)
         /\ \A i \in 1..NSamples : sample_count[i] = IPow(10, i - 1)
         /\ status = "ok"

C8_Witness ==
  /\ IsLogExample
  /\ pc = "step"
  /\ sample_count = <<1, 10, 100>>
  /\ next_sample_count = 1000
  /\ status = "ok"

\* C33: in BY_STEP or BY_PASS mode, if sample_data_by_count_if_due is called
\* right after reset and after every increment_step (and no call fails),
\* then count <= next_sample_count holds in every reachable state and a
\* sample is taken at every scheduled count that is reached: no scheduled
\* sample is skipped.
C33_NoScheduledSampleSkipped ==
  (pc \in {"check", "step"} /\ sample_mode # "BY_TIME" /\ status = "ok") =>
    /\ count <= next_sample_count
    /\ pc = "step" => count < next_sample_count
    /\ \A i \in 1..NSamples :
         sample_count[i] = StdRound(ScheduleAt(i - 1))
    /\ next_sample_count = StdRound(ScheduleAt(NSamples))
    /\ \A n \in 0..MaxLoopSamples :
         (StdRound(ScheduleAt(n)) < count
            \/ (pc = "step" /\ StdRound(ScheduleAt(n)) = count))
         => n < NSamples

\* sampling by pass with two steps per pass: three scheduled counts have been
\* reached and each was sampled
C33_Witness ==
  /\ pc = "step"
  /\ sample_mode = "BY_PASS"
  /\ steps_per_pass = 2
  /\ status = "ok"
  /\ sample_count = <<1, 3, 5>>
  /\ next_sample_count = 7
  /\ count = 6

\* count has passed the target of the count-based due check
Missed ==
  /\ status = "ok"
  /\ sample_mode # "BY_TIME"
  /\ count > next_sample_count

\* C34: because sample_data_by_count_if_due tests count == next_sample_count,
\* once count exceeds next_sample_count without the due sample having been
\* taken (the check was not called while count equalled the target), no
\* later call of sample_data_by_count_if_due takes a sample until reset is
\* called.
C34_MissedSampleIsNeverTaken ==
  [][Missed =>
       /\ ~SampleTaken
       /\ SampleDataByCountIfDue => UNCHANGED samplerVars
       /\ Missed' \/ n_increment' = 0]_vars

\* one sample was taken, the next target was passed without a check, and
\* count is two beyond it
C34_Witness ==
  /\ pc = "count"
  /\ Missed
  /\ sample_count = <<0>>
  /\ next_sample_count = 1
  /\ count = 3

\* C35: when samples are taken only through sample_data_by_count_if_due,
\* sample_count is strictly increasing: at most one sample is taken per
\* value of count, even in BY_PASS mode where the check is called on every
\* step and count stays the same for a whole pass.
C35_SampleCountIncreases ==
  pc = "count" =>
    \A i \in 1..NSamples : \A j \in 1..NSamples :
      i < j => sample_count[i] < sample_count[j]

\* sampling by pass, two steps per pass: the second pass is under way and
\* its count was sampled once
C35_Witness ==
  /\ pc = "count"
  /\ status = "ok"
  /\ sample_mode = "BY_PASS"
  /\ steps_per_pass = 2
  /\ n_increment = 3
  /\ count = 1
  /\ sample_count = <<0, 1>>

\* C36: when sample_data fails with a schedule violation, the sample it was
\* taking has already been appended to sample_count, sample_clocktime and
\* every Sampler (and to sample_time / sample_trajectory when enabled) and
\* the offending next_sample_count / next_sample_time has already been
\* stored: the failure does not restore the StateSampler to its state before
\* the call.
C36_FailureKeepsTheSample ==
  [][(status = "ok" /\ status' = "failed") =>
       /\ sample_count' = Append(sample_count, count)
       /\ sample_clocktime' = Append(sample_clocktime, LogTimeS)
       /\ \A name \in DOMAIN samplers :
            /\ Len(samplers'[name]) > Len(samplers[name])
            /\ Last(samplers'[name]) = Observation
       /\ sample_time' =
            (IF do_sample_time THEN Append(sample_time, time) ELSE sample_time)
       /\ sample_trajectory' =
            (IF do_sample_trajectory
               THEN Append(sample_trajectory, Configuration)
               ELSE sample_trajectory)
       /\ ~TargetAhead'
       /\ (IF sample_mode = "BY_TIME"
             THEN next_sample_count' = next_sample_count
             ELSE next_sample_time' = next_sample_time)
       /\ ( /\ ~stochastic_sample_period
            /\ sample_mode = "BY_TIME" => do_sample_time ) =>
            (IF sample_mode = "BY_TIME"
               THEN next_sample_time' = ScheduleAt(NSamples + 1)
               ELSE next_sample_count' = StdRound(ScheduleAt(NSamples + 1)))
       /\ samplerVars' # samplerVars]_vars

\* a sample by time failed: its time and configuration are recorded and
\* the target that is not ahead of the time is stored
C36_Witness ==
  /\ status = "failed"
  /\ sample_mode = "BY_TIME"
  /\ do_sample_time
  /\ time = R(1)
  /\ sample_time = <<R(1)>>
  /\ sample_trajectory = <<Configuration>>
  /\ next_sample_time = <<1, 2>>

\* C37: with stochastic_sample_period set in BY_STEP or BY_PASS mode, a
\* sample taken through sample_data_by_count_if_due never raises a schedule
\* violation: the new next_sample_count is the count just recorded plus k
\* with k >= 1, hence strictly greater than count.
C37_StochasticTargetIsAhead ==
  [][(stochastic_sample_period /\ sample_mode # "BY_TIME" /\ SampleTaken) =>
       /\ status' # "failed"
       /\ status' = "ok" =>
            /\ Len(draws') >= 1
            /\ Last(sample_count') = count
            /\ next_sample_count' = count + Len(draws')
            /\ next_sample_count' > count]_vars

\* sampling by pass, the due sample at count 0 was taken and the second
\* draw ended the count step
C37_Witness ==
  /\ stochastic_sample_period
  /\ sample_mode = "BY_PASS"
  /\ status = "ok"
  /\ sample_count = <<0>>
  /\ draws = <<<<1, 2>>, R(0)>>
  /\ next_sample_count = 2

\* C9: stochastic_count_step(r) returns k >= 1, the number of uniform draws
\* it made, the k-th draw being the first one smaller than r; under
\* stochastic BY_STEP / BY_PASS sampling the next target of every sample
\* after the first is the count of the previous sample plus that k.
C9_StochasticCountStep ==
  (stochastic_sample_period /\ sample_mode # "BY_TIME" /\ NSamples > 0
     /\ status \in {"ok", "failed"}) =>
    LET k == Len(draws)
        r == sample_rate_at(NSamples)
    IN  /\ k >= 1
        /\ RLess(draws[k], r)
        /\ \A i \in 1..(k - 1) : ~RLess(draws[i], r)
        /\ next_sample_count = Last(sample_count) + k

C9_Witness ==
  /\ stochastic_sample_period
  /\ sample_mode = "BY_STEP"
  /\ NSamples = 1
  /\ Len(draws) = 2
  /\ next_sample_count = Last(sample_count) + 2
  /\ status = "ok"

\* the schedule value for n = 0
FirstTarget ==
  IF stochastic_sample_period \/ sample_method = "LINEAR"
    THEN begin
    ELSE RAdd(begin, StdPow(period, RDiv(shift, samples_per_period)))

\* C10: reset(s), called in any reachable state, zeroes step, pass, count,
\* time, n_accept and n_reject, sets steps_per_pass to s, empties
\* sample_count, sample_time, sample_weight, sample_clocktime and
\* sample_trajectory, replaces samplers by one empty Sampler per sampling
\* function (name), and sets the next target to the schedule value for
\* n = 0: the resulting state is a function of the parameters and s alone.
C10_ResetForgetsHistory ==
  [][\A s \in StepsPerPassArgs :
       Reset(s) =>
         /\ step' = 0 /\ pass' = 0 /\ count' = 0 /\ time' = R(0)
         /\ n_accept' = 0 /\ n_reject' = 0
         /\ steps_per_pass' = ToCount(s)
         /\ sample_count' = <<>> /\ sample_time' = <<>>
         /\ sample_weight' = <<>> /\ sample_clocktime' = <<>>
         /\ sample_trajectory' = <<>>
         /\ DOMAIN samplers' = {functions[i] : i \in DOMAIN functions}
         /\ \A name \in DOMAIN samplers' : samplers'[name] = <<>>
         /\ next_sample_count' =
              (IF sample_mode = "BY_TIME" THEN 0 ELSE StdRound(FirstTarget))
         /\ next_sample_time' =
              (IF sample_mode = "BY_TIME" THEN FirstTarget ELSE R(0))
         /\ UNCHANGED paramVars]_vars

C10_Witness ==
  /\ steps_per_pass = 2
  /\ n_increment = 0
  /\ step = 0 /\ pass = 0 /\ count = 0
  /\ sample_count = <<>>
  /\ sample_method = "LOG"
  /\ status = "ok"


\* ----------------------------------------------------------------------
\* OccLocation: collaborators (Conversions, OccCandidateList)
\* ----------------------------------------------------------------------

\* number of sites of the configuration
NSites == 5

\* largest number of apply calls explored after an initialize
MaxEvents == 2

Sites == 0 .. NSites - 1

\* std::vector, indexed from 0
Size(v) == Cardinality(DOMAIN v)
PushBack(v, x) == [i \in 0 .. Size(v) |-> IF i < Size(v) THEN v[i] ELSE x]
PopBack(v) == [i \in 0 .. Size(v) - 2 |-> v[i]]
Back(v) == v[Size(v) - 1]

\* Conversions: the asymmetric unit of site l (sites of unit 1 do not
\* mutate, units 0 and 2 allow two occupants each)
l_to_asym(l) == CASE l = 2 -> 1 [] l = 3 -> 2 [] OTHER -> 0

occ_size(asym) == IF asym = 1 THEN 1 ELSE 2

\* Conversions: the species of occupant occ_index on asymmetric unit asym
species_index(asym, occ_index) ==
  CASE asym = 0 -> 1 - occ_index
    [] asym = 1 -> 2
    [] OTHER    -> IF occ_index = 0 THEN 0 ELSE 3

\* Conversions: the inverse mapping
occ_index(asym, species) ==
  CHOOSE o \in 0 .. occ_size(asym) - 1 : species_index(asym, o) = species

\* Conversions: the number of atomic components of a species
components_size(species) == 1

\* OccCandidateList: the (asymmetric unit, species) pairs, by index
OccCandidateList ==
  [c \in 0 .. 4 |->
     CASE c = 0 -> [asym |-> 0, species_index |-> 1]
       [] c = 1 -> [asym |-> 1, species_index |-> 2]
       [] c = 2 -> [asym |-> 0, species_index |-> 0]
       [] c = 3 -> [asym |-> 2, species_index |-> 3]
       [] OTHER -> [asym |-> 2, species_index |-> 0]]

cand_index(asym, species) ==
  CHOOSE c \in DOMAIN OccCandidateList :
    OccCandidateList[c] = [asym |-> asym, species_index |-> species]

is_mutating(l) == occ_size(l_to_asym(l)) > 1

\* two sites whose occupants can change places
can_swap(S, a, b) ==
  /\ is_mutating(a)
  /\ is_mutating(b)
  /\ l_to_asym(a) = l_to_asym(b)
  /\ S.occupation[a] # S.occupation[b]

\* the occupation vectors of the configuration
Occupations ==
  { occ \in [Sites -> {0, 1}] :
      \A l \in Sites : occ[l] < occ_size(l_to_asym(l)) }

\* ----------------------------------------------------------------------
\* OccLocation: initialize and apply
\* ----------------------------------------------------------------------

\* the OccLocation object and the occupation vector, as one value
OccState ==
  [occupation     |-> occupation,
   m_loc          |-> m_loc,
   m_atoms        |-> m_atoms,
   m_mol          |-> m_mol,
   m_l_to_mol     |-> m_l_to_mol,
   m_update_atoms |-> m_update_atoms,
   m_tmol         |-> m_tmol]

n_mutating == Cardinality({l \in Sites : is_mutating(l)})

\* the atoms appended for the components of a Mol on site l
RECURSIVE push_back_atoms(_, _, _, _)
push_back_atoms(atoms, species, l, j) ==
  IF j = components_size(species) THEN atoms
  ELSE push_back_atoms(
         PushBack(atoms, [species_index  |-> species,
                          atom_index     |-> j,
                          id             |-> Size(atoms),
                          bijk_begin     |-> l,
                          delta_ijk      |-> 0,
                          mol_comp_begin |-> j]),
         species, l, j + 1)

\* initialize: the walk over the sites from l on
RECURSIVE initialize_from(_, _)
initialize_from(l, S) ==
  IF l = NSites THEN S
  ELSE IF is_mutating(l)
    THEN LET asym    == l_to_asym(l)
             species == species_index(asym, S.occupation[l])
             c       == cand_index(asym, species)
             mol_id  == Size(S.m_mol)
             first   == Size(S.m_atoms)
             mol     == [id            |-> mol_id,
                         l             |-> l,
                         asym          |-> asym,
                         species_index |-> species,
                         component     |->
                           IF S.m_update_atoms
                             THEN [j \in 0 .. components_size(species) - 1
                                     |-> first + j]
                             ELSE <<>>,
                         loc           |-> Size(S.m_loc[c])]
         IN  initialize_from(l + 1,
               [S EXCEPT !.m_mol      = PushBack(@, mol),
                         !.m_atoms    = IF S.m_update_atoms
                                          THEN push_back_atoms(@, species, l, 0)
                                          ELSE @,
                         !.m_loc[c]   = PushBack(@, mol_id),
                         !.m_l_to_mol = PushBack(@, mol_id)])
    ELSE initialize_from(l + 1,
           [S EXCEPT !.m_l_to_mol = PushBack(@, n_mutating)])

\* initialize(occupation): all tables rebuilt from scratch
initialize(_occupation, update_atoms) ==
  LET S == initialize_from(0,
             [occupation     |-> _occupation,
              m_loc          |-> [c \in DOMAIN OccCandidateList |-> <<>>],
              m_atoms        |-> <<>>,
              m_mol          |-> <<>>,
              m_l_to_mol     |-> <<>>,
              m_update_atoms |-> update_atoms,
              m_tmol         |-> <<>>])
  IN  [S EXCEPT !.m_tmol = IF update_atoms THEN S.m_mol ELSE <<>>]

\* variant: the Mol swapped into the vacated slot keeps its old loc
remove_from_loc_stale_neighbour(S, mol_id) ==
  LET mol  == S.m_mol[mol_id]
      c    == cand_index(mol.asym, mol.species_index)
      back == Back(S.m_loc[c])
  IN  [S EXCEPT !.m_loc[c] = PopBack([@ EXCEPT ![mol.loc] = back])]

\* variant: the vacated slot is overwritten but the bucket is not shortened
remove_from_loc_no_pop(S, mol_id) ==
  LET mol  == S.m_mol[mol_id]
      c    == cand_index(mol.asym, mol.species_index)
      back == Back(S.m_loc[c])
  IN  [S EXCEPT !.m_loc[c] = [@ EXCEPT ![mol.loc] = back],
                !.m_mol[back].loc = mol.loc]

\* variant: the last entry is popped without being moved to the vacated slot
remove_from_loc_pop_only(S, mol_id) ==
  LET mol == S.m_mol[mol_id]
      c   == cand_index(mol.asym, mol.species_index)
  IN  [S EXCEPT !.m_loc[c] = PopBack(@)]

\* apply, step 1: swap-with-last-and-pop in the old bucket
remove_from_loc(S, mol_id) ==
  LET mol  == S.m_mol[mol_id]
      c    == cand_index(mol.asym, mol.species_index)
      back == Back(S.m_loc[c])
  IN  [S EXCEPT !.m_loc[c] = PopBack([@ EXCEPT ![mol.loc] = back]),
                !.m_mol[back].loc = mol.loc]

\* variant: the species of the Mol is left as it was
set_species_index_skipped(S, mol_id, to_species) == S

\* apply, step 2
set_species_index(S, mol_id, to_species) ==
  [S EXCEPT !.m_mol[mol_id].species_index = to_species]

\* apply, step 3: append to the new bucket
add_to_loc(S, mol_id) ==
  LET mol == S.m_mol[mol_id]
      c   == cand_index(mol.asym, mol.species_index)
  IN  [S EXCEPT !.m_mol[mol_id].loc = Size(S.m_loc[c]),
                !.m_loc[c] = PushBack(@, mol_id)]

\* variant: the occupation vector is not written
set_occupation_skipped(S, l, new_occ) == S

\* apply, step 4
set_occupation(S, l, new_occ) ==
  [S EXCEPT !.occupation[l] = new_occ]

\* apply: the occ_transform records from the i-th on
RECURSIVE apply_occ_transform(_, _, _)
apply_occ_transform(e, i, S) ==
  IF i > Len(e.occ_transform) THEN S
  ELSE LET occ == e.occ_transform[i]
           S1  == remove_from_loc(S, occ.mol_id)
           S2  == set_species_index(S1, occ.mol_id, occ.to_species)
           S3  == add_to_loc(S2, occ.mol_id)
           S4  == set_occupation(S3, occ.l, e.new_occ[i])
       IN  apply_occ_transform(e, i + 1, S4)

\* apply: the component lists of the Mols of the event, copied to m_tmol
stage_components(e, S) ==
  [S EXCEPT !.m_tmol =
     [m \in DOMAIN S.m_mol |->
        IF \E i \in DOMAIN e.occ_transform : e.occ_transform[i].mol_id = m
          THEN [@[m] EXCEPT !.component = S.m_mol[m].component]
          ELSE @[m]]]

\* variant: the atom is read from the list being written
RECURSIVE apply_atom_traj_unstaged(_, _, _)
apply_atom_traj_unstaged(e, i, S) ==
  IF i > Len(e.atom_traj) THEN S
  ELSE LET traj    == e.atom_traj[i]
           atom_id == S.m_mol[traj.from.mol_id].component[traj.from.mol_comp]
       IN  apply_atom_traj_unstaged(e, i + 1,
             [S EXCEPT
                !.m_mol[traj.to.mol_id].component[traj.to.mol_comp] = atom_id,
                !.m_atoms[atom_id].delta_ijk = @ + traj.delta_ijk])

\* apply: the atom_traj records from the i-th on, read from m_tmol
RECURSIVE apply_atom_traj(_, _, _)
apply_atom_traj(e, i, S) ==
  IF i > Len(e.atom_traj) THEN S
  ELSE LET traj    == e.atom_traj[i]
           atom_id == S.m_tmol[traj.from.mol_id].component[traj.from.mol_comp]
       IN  apply_atom_traj(e, i + 1,
             [S EXCEPT
                !.m_mol[traj.to.mol_id].component[traj.to.mol_comp] = atom_id,
                !.m_atoms[atom_id].delta_ijk = @ + traj.delta_ijk])

\* apply(e, occupation)
apply(e, S) ==
  IF S.m_update_atoms
    THEN apply_atom_traj(e, 1, apply_occ_transform(e, 1, stage_components(e, S)))
    ELSE apply_occ_transform(e, 1, S)

\* ----------------------------------------------------------------------
\* OccLocation: events
\* ----------------------------------------------------------------------

\* the occ_transform record that changes the occupant of site l
occ_transform_at(S, l, new_occ) ==
  [l            |-> l,
   mol_id       |-> S.m_l_to_mol[l],
   asym         |-> l_to_asym(l),
   from_species |-> species_index(l_to_asym(l), S.occupation[l]),
   to_species   |-> species_index(l_to_asym(l), new_occ)]

atom_traj_between(S, from_l, to_l) ==
  [from      |-> [l |-> from_l, mol_id |-> S.m_l_to_mol[from_l], mol_comp |-> 0],
   to        |-> [l |-> to_l, mol_id |-> S.m_l_to_mol[to_l], mol_comp |-> 0],
   delta_ijk |-> to_l - from_l]

\* a single-site event: the occupant of site l changes
FlipEvent(S, l) ==
  LET new_occ == 1 - S.occupation[l]
  IN  [linear_site_index |-> <<l>>,
       new_occ           |-> <<new_occ>>,
       occ_transform     |-> <<occ_transform_at(S, l, new_occ)>>,
       atom_traj         |-> <<>>]

\* a two-site event: the occupants of sites a and b change places
SwapEvent(S, a, b) ==
  [linear_site_index |-> <<a, b>>,
   new_occ           |-> <<S.occupation[b], S.occupation[a]>>,
   occ_transform     |-> <<occ_transform_at(S, a, S.occupation[b]),
                           occ_transform_at(S, b, S.occupation[a])>>,
   atom_traj         |-> IF S.m_update_atoms
                           THEN <<atom_traj_between(S, a, b),
                                  atom_traj_between(S, b, a)>>
                           ELSE <<>>]

\* the event that undoes e
InverseEvent(e) ==
  [linear_site_index |-> e.linear_site_index,
   new_occ           |->
     [i \in DOMAIN e.occ_transform |->
        occ_index(e.occ_transform[i].asym, e.occ_transform[i].from_species)],
   occ_transform     |->
     [i \in DOMAIN e.occ_transform |->
        [e.occ_transform[i] EXCEPT
           !.from_species = e.occ_transform[i].to_species,
           !.to_species   = e.occ_transform[i].from_species]],
   atom_traj         |->
     [i \in DOMAIN e.atom_traj |->
        [from      |-> e.atom_traj[i].to,
         to        |-> e.atom_traj[i].from,
         delta_ijk |-> 0 - e.atom_traj[i].delta_ijk]]]

\* ----------------------------------------------------------------------
\* OccLocation: operations
\* ----------------------------------------------------------------------

\* no StateSampler takes part
SamplerIdle ==
  /\ sample_mode = "BY_STEP"
  /\ sample_method = PlainSchedule.sample_method
  /\ begin = PlainSchedule.begin
  /\ period = PlainSchedule.period
  /\ samples_per_period = PlainSchedule.samples_per_period
  /\ shift = PlainSchedule.shift
  /\ stochastic_sample_period = PlainSchedule.stochastic_sample_period
  /\ do_sample_time = FALSE
  /\ functions = PlainLayout.functions
  /\ do_sample_trajectory = PlainLayout.do_sample_trajectory
  /\ Constructed
  /\ pc = "idle"

SetOccState(S) ==
  /\ occupation' = S.occupation
  /\ m_loc' = S.m_loc
  /\ m_atoms' = S.m_atoms
  /\ m_mol' = S.m_mol
  /\ m_l_to_mol' = S.m_l_to_mol
  /\ m_update_atoms' = S.m_update_atoms
  /\ m_tmol' = S.m_tmol

\* construction followed by initialize(occupation)
InitOcc ==
  /\ \E occ \in Occupations, update_atoms \in BOOLEAN :
       LET S == initialize(occ, update_atoms)
       IN  /\ occupation = S.occupation
           /\ m_loc = S.m_loc
           /\ m_atoms = S.m_atoms
           /\ m_mol = S.m_mol
           /\ m_l_to_mol = S.m_l_to_mol
           /\ m_update_atoms = S.m_update_atoms
           /\ m_tmol = S.m_tmol
  /\ last_event = <<>>
  /\ occ_before = <<>>
  /\ occ_trip = "none"
  /\ n_apply = 0
  /\ SamplerIdle
  /\ RunIdle
  /\ KmcIdle
  /\ SetupIdle

\* initialize(occupation), called again with the current occupation
Initialize ==
  /\ SetOccState(initialize(occupation, m_update_atoms))
  /\ last_event' = <<>>
  /\ occ_before' = <<>>
  /\ occ_trip' = "none"
  /\ n_apply' = 0
  /\ UNCHANGED <<opVars, pc, runVars, kmcVars, setup>>

\* apply(e, occupation) for a valid event e
Apply(e) ==
  /\ n_apply < MaxEvents
  /\ SetOccState(apply(e, OccState))
  /\ last_event' = e
  /\ occ_before' = OccState
  /\ occ_trip' = "applied"
  /\ n_apply' = n_apply + 1
  /\ UNCHANGED <<opVars, pc, runVars, kmcVars, setup>>

\* apply of the inverse of the event applied last
ApplyInverse ==
  /\ occ_trip = "applied"
  /\ n_apply < MaxEvents
  /\ SetOccState(apply(InverseEvent(last_event), OccState))
  /\ occ_trip' = "undone"
  /\ n_apply' = n_apply + 1
  /\ UNCHANGED <<last_event, occ_before>>
  /\ UNCHANGED <<opVars, pc, runVars, kmcVars, setup>>

NextOcc ==
  \/ Initialize
  \/ \E l \in Sites : is_mutating(l) /\ Apply(FlipEvent(OccState, l))
  \/ \E a, b \in Sites :
       can_swap(OccState, a, b) /\ Apply(SwapEvent(OccState, a, b))
  \/ ApplyInverse

SpecOcc == InitOcc /\ [][NextOcc]_vars


\* ----------------------------------------------------------------------
\* CompletionCheck
\* ----------------------------------------------------------------------

\* an optional cutoff that is not set (the cutoffs that are set are >= 0)
None == 0 - 1

\* largest value of count, time and clocktime that is told apart: every
\* cutoff is smaller, and larger values are recorded as this one
MaxRunCount == 5

\* largest number of samples that is told apart (see next_n_samples)
MaxRunSamples == 120

CutoffCheckParams(min_count, max_count, min_sample, max_sample, min_time, max_time, min_clocktime, max_clocktime) ==
  [min_count     |-> min_count,     max_count     |-> max_count,
   min_sample    |-> min_sample,    max_sample    |-> max_sample,
   min_time      |-> min_time,      max_time      |-> max_time,
   min_clocktime |-> min_clocktime, max_clocktime |-> max_clocktime]

CompletionCheckParams(cutoff_params, requested_precision, log_spacing, check_begin, check_period, checks_per_period, check_shift) ==
  [cutoff_params       |-> cutoff_params,
   requested_precision |-> requested_precision,
   log_spacing         |-> log_spacing,
   check_begin         |-> check_begin,
   check_period        |-> check_period,
   checks_per_period   |-> checks_per_period,
   check_shift         |-> check_shift]

\* the parameters of BasicIsingEigenTest.SemiGrandCanonicalRun1
TestParams ==
  CompletionCheckParams(
    CutoffCheckParams(None, None, 100, None, None, None, None, None),
    {"param_composition", "potential_energy"},
    FALSE, R(100), R(10), R(1), R(1))

\* the parameters of the runs explored
RunParams ==
  { TestParams,
    CompletionCheckParams(
      CutoffCheckParams(None, None, None, None, None, None, None, None),
      {"a"}, FALSE, R(0), R(2), R(1), R(1)),
    CompletionCheckParams(
      CutoffCheckParams(2, 4, None, None, None, None, None, None),
      {"a"}, FALSE, R(0), R(1), R(1), R(1)),
    CompletionCheckParams(
      CutoffCheckParams(None, None, 3, None, None, 2, None, None),
      {}, FALSE, R(0), R(10), R(1), R(1)),
    CompletionCheckParams(
      CutoffCheckParams(None, None, 1, None, None, None, None, None),
      {}, FALSE, R(0), R(10), R(1), R(1)),
    CompletionCheckParams(
      CutoffCheckParams(None, None, None, None, 1, None, 1, 3),
      {"a", "b"}, FALSE, R(1), R(3), R(1), R(1)),
    CompletionCheckParams(
      CutoffCheckParams(None, None, None, 3, None, None, None, None),
      {"a"}, TRUE, R(0), R(2), R(1), R(1)) }

\* variant: the spacing of linear checks is checks_per_period / period
check_at_inverse_spacing(params, n) ==
  IF params.log_spacing
    THEN RAdd(params.check_begin,
              StdPow(params.check_period,
                     RDiv(RAdd(R(n), params.check_shift),
                          params.checks_per_period)))
    ELSE RAdd(params.check_begin,
              RMul(RDiv(params.checks_per_period, params.check_period), R(n)))

\* the number of samples at which the n-th convergence check is made
check_at(params, n) ==
  IF params.log_spacing
    THEN RAdd(params.check_begin,
              StdPow(params.check_period,
                     RDiv(RAdd(R(n), params.check_shift),
                          params.checks_per_period)))
    ELSE RAdd(params.check_begin,
              RMul(RDiv(params.check_period, params.checks_per_period), R(n)))

\* the current number of samples is a scheduled convergence-check point
is_check_point(params, _n_samples) ==
  \E n \in 0 .. _n_samples : StdRound(check_at(params, n)) = _n_samples

all_minimums_met(cutoff, _count, _time, _n_samples, _clocktime) ==
  /\ cutoff.min_count = None \/ _count >= cutoff.min_count
  /\ cutoff.min_sample = None \/ _n_samples >= cutoff.min_sample
  /\ cutoff.min_time = None \/ _time >= cutoff.min_time
  /\ cutoff.min_clocktime = None \/ _clocktime >= cutoff.min_clocktime

any_maximum_met(cutoff, _count, _time, _n_samples, _clocktime) ==
  \/ cutoff.max_count # None /\ _count >= cutoff.max_count
  \/ cutoff.max_sample # None /\ _n_samples >= cutoff.max_sample
  \/ cutoff.max_time # None /\ _time >= cutoff.max_time
  \/ cutoff.max_clocktime # None /\ _clocktime >= cutoff.max_clocktime

\* variant: a breached maximum completes the run only once the minimums
\* are met
completion_check_minimums_first(params, _count, _time, _clocktime, _n_samples, equilibrated, converged) ==
  LET mins == all_minimums_met(params.cutoff_params, _count, _time,
                               _n_samples, _clocktime)
      maxs == any_maximum_met(params.cutoff_params, _count, _time,
                              _n_samples, _clocktime)
      due  == /\ mins
              /\ params.requested_precision # {}
              /\ is_check_point(params, _n_samples)
      tail == [c \in params.requested_precision |->
                 equilibrated[c] /\ converged[c]]
  IN  [count       |-> _count,
       time        |-> _time,
       clocktime   |-> _clocktime,
       n_samples   |-> _n_samples,
       has_all_minimums_met |-> mins,
       has_any_maximum_met  |-> maxs,
       equilibration_check_results |-> IF due THEN equilibrated ELSE <<>>,
       convergence_check_results   |-> IF due THEN tail ELSE <<>>,
       is_complete |->
         mins /\ (maxs \/ (due /\ \A c \in params.requested_precision : tail[c]))]

\* one evaluation of the completion check; equilibrated and converged are
\* the outcomes of the equilibration check and of the convergence check on
\* the equilibrated tail, per requested component
completion_check(params, _count, _time, _clocktime, _n_samples, equilibrated, converged) ==
  LET mins == all_minimums_met(params.cutoff_params, _count, _time,
                               _n_samples, _clocktime)
      maxs == any_maximum_met(params.cutoff_params, _count, _time,
                              _n_samples, _clocktime)
      due  == /\ mins
              /\ params.requested_precision # {}
              /\ is_check_point(params, _n_samples)
      tail == [c \in params.requested_precision |->
                 equilibrated[c] /\ converged[c]]
  IN  [count       |-> _count,
       time        |-> _time,
       clocktime   |-> _clocktime,
       n_samples   |-> _n_samples,
       has_all_minimums_met |-> mins,
       has_any_maximum_met  |-> maxs,
       equilibration_check_results |-> IF due THEN equilibrated ELSE <<>>,
       convergence_check_results   |-> IF due THEN tail ELSE <<>>,
       is_complete |->
         maxs \/ (due /\ \A c \in params.requested_precision : tail[c])]

\* ----------------------------------------------------------------------
\* A run: the completion check is evaluated, and while it is not complete
\* the driving loop makes one more pass and takes one more sample
\* ----------------------------------------------------------------------

\* the number of samples after one more sample; beyond MaxRunSamples the
\* number is folded back by one spacing of the (linear) checks, which keeps
\* its position in the check schedule
next_n_samples(params, n) ==
  IF n < MaxRunSamples THEN n + 1
  ELSE n + 1 - StdRound(RDiv(params.check_period, params.checks_per_period))

next_count(n) == IF n < MaxRunCount THEN n + 1 ELSE n

InitRun ==
  /\ m_params \in RunParams
  /\ m_results = <<>>
  /\ run_count = 0
  /\ run_time = 0
  /\ run_clocktime = 0
  /\ n_samples = 0
  /\ run_pc = "check"
  /\ SamplerIdle
  /\ OccIdle
  /\ KmcIdle
  /\ SetupIdle

\* the loop condition: the completion check with the current quantities
RunCheck ==
  /\ run_pc = "check"
  /\ \E equilibrated, converged \in [m_params.requested_precision -> BOOLEAN] :
       m_results' = completion_check(m_params, run_count, run_time,
                                     run_clocktime, n_samples,
                                     equilibrated, converged)
  /\ run_pc' = IF m_results'.is_complete THEN "done" ELSE "step"
  /\ UNCHANGED <<m_params, run_count, run_time, run_clocktime, n_samples>>
  /\ UNCHANGED <<opVars, pc, occVars, kmcVars, setup>>

\* the loop body: one pass, one sample
RunStep ==
  /\ run_pc = "step"
  /\ run_count' = next_count(run_count)
  /\ run_time' = next_count(run_time)
  /\ \E d \in {0, 1} :
       run_clocktime' = IF d = 1 THEN next_count(run_clocktime)
                        ELSE run_clocktime
  /\ n_samples' = next_n_samples(m_params, n_samples)
  /\ run_pc' = "check"
  /\ UNCHANGED <<m_params, m_results>>
  /\ UNCHANGED <<opVars, pc, occVars, kmcVars, setup>>

NextRun == RunCheck \/ RunStep

SpecRun == InitRun /\ [][NextRun]_vars

\* the driving loop is sequential code: while the run is not complete its
\* next statement is executed.  Every step of NextRun moves run_pc, and a step
\* of NextRun is possible exactly when run_pc is not "done"
RunAdvance ==
  /\ run_pc # "done"
  /\ run_pc' \in {"check", "step", "done"} \ {run_pc}

\* the driving loop does not stop while the run is not complete
SpecRunFair == SpecRun /\ WF_run_pc(RunAdvance)

\* ----------------------------------------------------------------------
\* Properties of OccLocation
\* ----------------------------------------------------------------------

\* the candidate index of a Mol
cand_of(mol) == cand_index(mol.asym, mol.species_index)

\* C11: after initialize and any sequence of valid apply calls, every site l
\* with a mutating occupant has m_mol[m_l_to_mol[l]].l = l and
\* m_mol[m_l_to_mol[l]].species_index = species_index(asym(l), occupation[l]),
\* and every non-mutating site keeps the sentinel m_l_to_mol[l] = m_mol.size().
C11_SitesMatchMols ==
  \A l \in Sites :
    IF is_mutating(l)
      THEN /\ m_l_to_mol[l] \in DOMAIN m_mol
           /\ m_mol[m_l_to_mol[l]].l = l
           /\ m_mol[m_l_to_mol[l]].species_index =
                species_index(l_to_asym(l), occupation[l])
      ELSE m_l_to_mol[l] = Size(m_mol)

C11_Witness ==
  /\ n_apply >= 2
  /\ occ_trip = "applied"
  /\ Len(last_event.occ_transform) = 2
  /\ occupation # occ_before.occupation
  /\ \E l \in Sites : ~is_mutating(l) /\ m_l_to_mol[l] = Size(m_mol)

\* C12: after initialize and any sequence of valid apply calls, for every
\* candidate c and every position i < |m_loc[c]| the Mol m_loc[c][i] has
\* loc = i and its (asym, species_index) maps to c; this includes the Mol
\* that a swap-with-last removal moved into the vacated slot.
C12_BucketsMatchMols ==
  \A c \in DOMAIN m_loc :
    \A i \in DOMAIN m_loc[c] :
      /\ m_loc[c][i] \in DOMAIN m_mol
      /\ m_mol[m_loc[c][i]].loc = i
      /\ cand_of(m_mol[m_loc[c][i]]) = c

\* the last event removed a Mol that was not the last of its bucket
C12_Witness ==
  /\ occ_trip = "applied"
  /\ LET mol == occ_before.m_mol[last_event.occ_transform[1].mol_id]
         c   == cand_of(mol)
     IN  /\ mol.loc < Size(occ_before.m_loc[c]) - 1
         /\ m_mol[m_loc[c][mol.loc]].loc = mol.loc
         /\ m_loc[c][mol.loc] = Back(occ_before.m_loc[c])

RECURSIVE SumBucketSizes(_)
SumBucketSizes(c) ==
  IF c < 0 THEN 0 ELSE Size(m_loc[c]) + SumBucketSizes(c - 1)

BucketSizesMatchMols ==
  /\ \A c \in DOMAIN m_loc :
       Size(m_loc[c]) =
         Cardinality({m \in DOMAIN m_mol : cand_of(m_mol[m]) = c})
  /\ SumBucketSizes(Size(m_loc) - 1) = n_mutating

\* C13: |m_loc[c]| is the number of Mols whose (asym, species_index) maps to
\* c, so the bucket sizes sum to the number of mutating sites; a single-site
\* event that moves a Mol from candidate a to candidate b # a shrinks m_loc[a]
\* by one, grows m_loc[b] by one and leaves the other bucket sizes unchanged.
C13_BucketSizes ==
  /\ []BucketSizesMatchMols
  /\ [][\A l \in Sites :
          (is_mutating(l) /\ Apply(FlipEvent(OccState, l))) =>
            LET occ == FlipEvent(OccState, l).occ_transform[1]
                a   == cand_index(occ.asym, occ.from_species)
                b   == cand_index(occ.asym, occ.to_species)
            IN  /\ a # b
                /\ Size(m_loc'[a]) = Size(m_loc[a]) - 1
                /\ Size(m_loc'[b]) = Size(m_loc[b]) + 1
                /\ \A c \in DOMAIN m_loc \ {a, b} :
                     Size(m_loc'[c]) = Size(m_loc[c])]_vars

C13_Witness ==
  /\ occ_trip = "applied"
  /\ Len(last_event.occ_transform) = 1
  /\ LET occ == last_event.occ_transform[1]
         a   == cand_index(occ.asym, occ.from_species)
     IN  Size(m_loc[a]) = Size(occ_before.m_loc[a]) - 1

C15_ReinitializeAgrees ==
  LET S == initialize(occupation, m_update_atoms)
  IN  /\ S.m_l_to_mol = m_l_to_mol
      /\ DOMAIN S.m_loc = DOMAIN m_loc
      /\ \A c \in DOMAIN m_loc : Size(S.m_loc[c]) = Size(m_loc[c])

\* after two or more events the buckets are no longer in the order
\* initialize produces
C15_Witness ==
  /\ n_apply >= 2
  /\ initialize(occupation, m_update_atoms).m_loc # m_loc
  /\ \E c \in DOMAIN m_loc : Size(m_loc[c]) >= 2

\* the places (Mol, component) that hold atom a
PlacesOfAtom(a) ==
  { p \in (DOMAIN m_mol) \X {0} :
      /\ p[2] \in DOMAIN m_mol[p[1]].component
      /\ m_mol[p[1]].component[p[2]] = a }

\* C16: with the update of atoms enabled, after initialize and any sequence
\* of valid apply calls every atom id appears exactly once across the
\* component lists of all Mols, also after an event whose atom_traj exchanges
\* the atoms of two Mols.
C16_AtomsAppearOnce ==
  m_update_atoms =>
    /\ \A a \in DOMAIN m_atoms : Cardinality(PlacesOfAtom(a)) = 1
    /\ \A m \in DOMAIN m_mol :
         \A j \in DOMAIN m_mol[m].component :
           m_mol[m].component[j] \in DOMAIN m_atoms

C16_Witness ==
  /\ m_update_atoms
  /\ occ_trip = "applied"
  /\ Len(last_event.atom_traj) = 2
  /\ LET a == last_event.atom_traj[1].from.mol_id
         b == last_event.atom_traj[1].to.mol_id
     IN  /\ m_mol[a].component[0] = occ_before.m_mol[b].component[0]
         /\ m_mol[b].component[0] = occ_before.m_mol[a].component[0]
         /\ m_mol[a].component[0] # m_mol[b].component[0]


\* ----------------------------------------------------------------------
\* Properties of the completion check and of the run
\* ----------------------------------------------------------------------

\* the completion check has been evaluated with the current quantities
Checked == run_pc \in {"step", "done"}

MaximumBreached ==
  LET cutoff == m_params.cutoff_params
  IN  \/ cutoff.max_count # None /\ run_count >= cutoff.max_count
      \/ cutoff.max_sample # None /\ n_samples >= cutoff.max_sample
      \/ cutoff.max_time # None /\ run_time >= cutoff.max_time
      \/ cutoff.max_clocktime # None /\ run_clocktime >= cutoff.max_clocktime

MinimumsMet ==
  LET cutoff == m_params.cutoff_params
  IN  /\ cutoff.min_count # None => run_count >= cutoff.min_count
      /\ cutoff.min_sample # None => n_samples >= cutoff.min_sample
      /\ cutoff.min_time # None => run_time >= cutoff.min_time
      /\ cutoff.min_clocktime # None => run_clocktime >= cutoff.min_clocktime

NoMaximum ==
  LET cutoff == m_params.cutoff_params
  IN  /\ cutoff.max_count = None /\ cutoff.max_sample = None
      /\ cutoff.max_time = None /\ cutoff.max_clocktime = None

\* the check found every requested component equilibrated and converged
AllConverged ==
  /\ DOMAIN m_results.convergence_check_results = m_params.requested_precision
  /\ \A c \in m_params.requested_precision :
       /\ m_results.equilibration_check_results[c]
       /\ m_results.convergence_check_results[c]

\* C17: a completion check reports is_complete exactly when some maximum
\* cutoff is breached, or all minimum cutoffs are met and requested_precision
\* is non-empty and the number of samples is a scheduled convergence-check
\* point and every requested component is equilibrated and converged; a
\* breached maximum completes the run even if a minimum is not met, and with
\* all minimums met, an empty requested_precision and no maximum the run is
\* not complete.
C17_CompleteExactlyWhen ==
  Checked =>
    /\ m_results.has_all_minimums_met = MinimumsMet
    /\ m_results.has_any_maximum_met = MaximumBreached
    /\ m_results.is_complete <=>
         \/ MaximumBreached
         \/ /\ MinimumsMet
            /\ m_params.requested_precision # {}
            /\ is_check_point(m_params, n_samples)
            /\ AllConverged
    /\ MaximumBreached => m_results.is_complete
    /\ (MinimumsMet /\ m_params.requested_precision = {} /\ NoMaximum)
         => ~m_results.is_complete

\* a maximum is breached while a minimum is not met
C17_Witness ==
  /\ run_pc = "done"
  /\ m_results.is_complete
  /\ m_results.has_any_maximum_met
  /\ ~m_results.has_all_minimums_met
  /\ n_samples < m_params.cutoff_params.min_sample

IsTestRun == m_params = TestParams

MaxKmcEvents == 4

\* run_manager.sampling_fixtures, in order
FixtureLabels == <<"a", "b">>

Labels == {FixtureLabels[i] : i \in DOMAIN FixtureLabels}

EmptyMap == [k \in {} |-> 0]

\* map[key] = value
Assign(map, key, value) ==
  [k \in DOMAIN map \cup {key} |-> IF k = key THEN value ELSE map[k]]

\* std::map::emplace: inserts only if the key is absent
Emplace(map, key, value) ==
  IF key \in DOMAIN map
    THEN map
    ELSE [k \in DOMAIN map \cup {key} |-> IF k = key THEN value ELSE map[k]]

\* a sampling fixture: a StateSampler on a deterministic linear schedule
\* (sample n at begin + period * n) and a CompletionCheck with the cutoff
\* max_sample and no requested precision
SamplingFixture(_sample_mode, _begin, _period, max_sample) ==
  [sample_mode |-> _sample_mode, begin |-> _begin, period |-> _period,
   completion_check_params |->
     CompletionCheckParams(
       CutoffCheckParams(None, None, None, max_sample, None, None, None, None),
       {}, FALSE, R(0), R(10), R(1), R(1)),
   step |-> 0, count |-> 0, time |-> 0, n_accept |-> 0, n_reject |-> 0,
   n_samples |-> 0, next_sample_count |-> 0, next_sample_time |-> 0,
   is_complete |-> FALSE]

\* the fixtures a RunManager is constructed with
FixtureSets ==
  { [a |-> SamplingFixture("BY_STEP", 1, 1, 2),
     b |-> SamplingFixture("BY_TIME", 0, 2, 1)],
    [a |-> SamplingFixture("BY_STEP", 0, 2, 1),
     b |-> SamplingFixture("BY_STEP", 1, 1, 1)],
    [a |-> SamplingFixture("BY_TIME", 1, 1, 2),
     b |-> SamplingFixture("BY_TIME", 1, 2, 1)],
    [a |-> SamplingFixture("BY_STEP", 0, 1, 0),
     b |-> SamplingFixture("BY_TIME", 0, 1, 0)] }

\* what the caller's kmc_data holds before the call: nothing, or the data
\* a previous call left in it
KmcDataBefore ==
  { [sampling_fixture_label |-> "", total_rate |-> 0, time |-> 0,
     atom_positions_cart |-> 0,
     prev_time |-> EmptyMap, prev_atom_positions_cart |-> EmptyMap],
    [sampling_fixture_label |-> "a", total_rate |-> 1, time |-> 7,
     atom_positions_cart |-> 9,
     prev_time |-> [l \in {"a"} |-> 6],
     prev_atom_positions_cart |-> [l \in {"a"} |-> 8]],
    [sampling_fixture_label |-> "b", total_rate |-> 2, time |-> 7,
     atom_positions_cart |-> 9,
     prev_time |-> [l \in Labels |-> IF l = "a" THEN 6 ELSE 7],
     prev_atom_positions_cart |-> [l \in Labels |-> IF l = "a" THEN 8 ELSE 9]] }

\* event_selector: the total rates and time increments it may return
TotalRates == {1, 2}
TimeIncrements == {0, 1, 2}

\* occ_location.atom_positions_cart()
atom_positions_cart(_occ_positions) == _occ_positions

\* the schedule of a fixture
fixture_sample_at(fixture, sample_index) ==
  fixture.begin + fixture.period * sample_index

\* SamplingFixture::initialize: counters and samples are reset and the first
\* sample is scheduled
fixture_initialize(fixture) ==
  [fixture EXCEPT !.step = 0, !.count = 0, !.time = 0, !.n_accept = 0,
                  !.n_reject = 0, !.n_samples = 0, !.is_complete = FALSE,
                  !.next_sample_count = fixture_sample_at(fixture, 0),
                  !.next_sample_time = fixture_sample_at(fixture, 0)]

\* SamplingFixture::sample_data: one more sample, and the next is scheduled
fixture_sample_data(fixture) ==
  [fixture EXCEPT !.n_samples = @ + 1,
                  !.next_sample_count = fixture_sample_at(fixture, fixture.n_samples + 1),
                  !.next_sample_time = fixture_sample_at(fixture, fixture.n_samples + 1)]

\* SamplingFixture::is_complete: the completion check of the fixture with
\* its current counters
fixture_is_complete(fixture) ==
  completion_check(fixture.completion_check_params, fixture.count,
                   fixture.time, 0, fixture.n_samples,
                   EmptyMap, EmptyMap).is_complete

\* run_manager.is_complete(), from the check results of the fixtures
run_manager_is_complete(fixtures) ==
  \A l \in Labels : fixtures[l].is_complete

\* the index of the first fixture at or after index i that is due by count,
\* or Len(FixtureLabels) + 1
next_due_by_count(fixtures, i) ==
  LET due == { j \in i .. Len(FixtureLabels) :
                 LET f == fixtures[FixtureLabels[j]]
                 IN  f.sample_mode # "BY_TIME" /\ f.count = f.next_sample_count }
  IN  IF due = {} THEN Len(FixtureLabels) + 1
      ELSE CHOOSE j \in due : \A k \in due : j <= k

\* run_manager.next_sampling_fixture: the index of the BY_TIME fixture with
\* the smallest next_sample_time (the first of them in a tie), or 0
next_sampling_fixture(fixtures) ==
  LET by_time == { j \in DOMAIN FixtureLabels :
                     fixtures[FixtureLabels[j]].sample_mode = "BY_TIME" }
      first == { j \in by_time :
                   \A k \in by_time :
                     LET tj == fixtures[FixtureLabels[j]].next_sample_time
                         tk == fixtures[FixtureLabels[k]].next_sample_time
                     IN  tj < tk \/ (tj = tk /\ j <= k) }
  IN  IF by_time = {} THEN 0 ELSE CHOOSE j \in first : TRUE

\* variant: the pre-sample hook leaves kmc_data.time at the time of the
\* last applied event for every sample mode
pre_sample_action_keeps_time(data, fixture, label) ==
  [data EXCEPT !.sampling_fixture_label = label,
               !.atom_positions_cart = atom_positions_cart(occ_positions),
               !.total_rate = kmc_locals.total_rate]

\* variant: the pre-sample hook does not store the total rate of this
\* iteration
pre_sample_action_stale_rate(data, fixture, label) ==
  [data EXCEPT !.sampling_fixture_label = label,
               !.atom_positions_cart = atom_positions_cart(occ_positions),
               !.time = IF fixture.sample_mode = "BY_TIME"
                          THEN fixture.next_sample_time ELSE @]

\* pre_sample_action
pre_sample_action(data, fixture, label) ==
  [data EXCEPT !.sampling_fixture_label = label,
               !.atom_positions_cart = atom_positions_cart(occ_positions),
               !.total_rate = kmc_locals.total_rate,
               !.time = IF fixture.sample_mode = "BY_TIME"
                          THEN fixture.next_sample_time ELSE @]

\* post_sample_action
post_sample_action(data, label) ==
  [data EXCEPT !.prev_time = Assign(@, label, data.time),
               !.prev_atom_positions_cart =
                 Assign(@, label, data.atom_positions_cart)]

RECURSIVE emplace_fixtures(_, _)
\* the loop over the fixtures that enters each label in prev_time and
\* prev_atom_positions_cart
emplace_fixtures(data, i) ==
  IF i > Len(FixtureLabels) THEN data
  ELSE emplace_fixtures(
         [data EXCEPT !.prev_time = Emplace(@, FixtureLabels[i], data.time),
                      !.prev_atom_positions_cart =
                        Emplace(@, FixtureLabels[i], data.atom_positions_cart)],
         i + 1)

\* kinetic_monte_carlo has been called: fixtures as constructed, kmc_data as
\* the caller left it
InitKMC ==
  /\ kmc_data \in KmcDataBefore
  /\ sampling_fixtures \in FixtureSets
  /\ occ_positions = 0
  /\ kmc_locals = [total_rate |-> 0, event_time |-> 0, time_increment |-> 0]
  /\ kmc_pc = "begin"
  /\ kmc_cursor = 0
  /\ n_events = 0
  /\ time_increments_sum = 0
  /\ n_finalize = 0
  /\ sampled_at = EmptyMap
  /\ SamplerIdle
  /\ OccIdle
  /\ RunIdle
  /\ SetupIdle

\* atom positions and time are initialized, run_manager is initialized
KmcBegin ==
  /\ kmc_pc = "begin"
  /\ kmc_data' =
       emplace_fixtures(
         [kmc_data EXCEPT !.time = 0,
                          !.atom_positions_cart = atom_positions_cart(occ_positions),
                          !.prev_atom_positions_cart = EmptyMap],
         1)
  /\ sampling_fixtures' =
       [l \in Labels |-> fixture_initialize(sampling_fixtures[l])]
  /\ sampled_at' = [l \in Labels |->
                      [time |-> 0,
                       atom_positions_cart |-> atom_positions_cart(occ_positions)]]
  /\ kmc_pc' = "test"
  /\ UNCHANGED <<occ_positions, kmc_locals, kmc_cursor, n_events, time_increments_sum, n_finalize>>
  /\ UNCHANGED <<opVars, pc, occVars, runVars, setup>>

\* variant: the loop body runs once before the loop condition is looked at
KmcLoopTestAfterBody ==
  /\ kmc_pc = "test"
  /\ sampling_fixtures' =
       [l \in Labels |->
          [sampling_fixtures[l] EXCEPT
             !.is_complete = fixture_is_complete(sampling_fixtures[l])]]
  /\ kmc_pc' = IF n_events > 0 /\ run_manager_is_complete(sampling_fixtures')
                 THEN "finalize" ELSE "select"
  /\ UNCHANGED <<kmc_data, occ_positions, kmc_locals, kmc_cursor, n_events, time_increments_sum,
                 n_finalize, sampled_at>>
  /\ UNCHANGED <<opVars, pc, occVars, runVars, setup>>

\* while (!run_manager.is_complete())
KmcLoopTest ==
  /\ kmc_pc = "test"
  /\ sampling_fixtures' =
       [l \in Labels |->
          [sampling_fixtures[l] EXCEPT
             !.is_complete = fixture_is_complete(sampling_fixtures[l])]]
  /\ kmc_pc' = IF run_manager_is_complete(sampling_fixtures')
                 THEN "finalize" ELSE "select"
  /\ UNCHANGED <<kmc_data, occ_positions, kmc_locals, kmc_cursor, n_events, time_increments_sum,
                 n_finalize, sampled_at>>
  /\ UNCHANGED <<opVars, pc, occVars, runVars, setup>>

\* an event is selected
KmcSelectEvent ==
  /\ kmc_pc = "select"
  /\ n_events < MaxKmcEvents
  /\ \E _total_rate \in TotalRates, _time_increment \in TimeIncrements :
       kmc_locals' = [total_rate |-> _total_rate,
                      time_increment |-> _time_increment,
                      event_time |-> kmc_data.time + _time_increment]
  /\ kmc_pc' = "by_count"
  /\ kmc_cursor' = 1
  /\ UNCHANGED <<kmc_data, sampling_fixtures, occ_positions, n_events, time_increments_sum,
                 n_finalize, sampled_at>>
  /\ UNCHANGED <<opVars, pc, occVars, runVars, setup>>

\* run_manager.sample_data_by_count_if_due: the fan-out reaches the next
\* fixture that is due by count and runs its pre-sample hook, or is over
KmcSampleByCountIfDue ==
  /\ kmc_pc = "by_count"
  /\ LET j == next_due_by_count(sampling_fixtures, kmc_cursor)
     IN  IF j > Len(FixtureLabels)
           THEN /\ kmc_pc' = "by_time"
                /\ kmc_cursor' = 0
                /\ UNCHANGED kmc_data
           ELSE /\ kmc_pc' = "sample_by_count"
                /\ kmc_cursor' = j
                /\ kmc_data' = pre_sample_action(
                                 kmc_data, sampling_fixtures[FixtureLabels[j]],
                                 FixtureLabels[j])
  /\ UNCHANGED <<sampling_fixtures, occ_positions, kmc_locals, n_events, time_increments_sum,
                 n_finalize, sampled_at>>
  /\ UNCHANGED <<opVars, pc, occVars, runVars, setup>>

\* run_manager.sample_data_by_time_if_due: while the next sampling fixture
\* is due at event_time its pre-sample hook runs and it is sampled
KmcSampleByTimeIfDue ==
  /\ kmc_pc = "by_time"
  /\ LET j == next_sampling_fixture(sampling_fixtures)
     IN  IF j # 0 /\ kmc_locals.event_time >=
                       sampling_fixtures[FixtureLabels[j]].next_sample_time
           THEN /\ kmc_pc' = "sample_by_time"
                /\ kmc_cursor' = j
                /\ kmc_data' = pre_sample_action(
                                 kmc_data, sampling_fixtures[FixtureLabels[j]],
                                 FixtureLabels[j])
           ELSE /\ kmc_pc' = "accept"
                /\ kmc_cursor' = 0
                /\ UNCHANGED kmc_data
  /\ UNCHANGED <<sampling_fixtures, occ_positions, kmc_locals, n_events, time_increments_sum,
                 n_finalize, sampled_at>>
  /\ UNCHANGED <<opVars, pc, occVars, runVars, setup>>

\* fixture.sample_data and the post-sample hook of the fixture the fan-out
\* has reached
KmcSampleData ==
  /\ kmc_pc \in {"sample_by_count", "sample_by_time"}
  /\ LET label == FixtureLabels[kmc_cursor]
     IN  /\ sampling_fixtures' =
              [sampling_fixtures EXCEPT
                 ![label] = fixture_sample_data(sampling_fixtures[label])]
         /\ sampled_at' =
              [sampled_at EXCEPT
                 ![label] = [time |-> kmc_data.time,
                             atom_positions_cart |-> atom_positions_cart(occ_positions)]]
         /\ kmc_data' = post_sample_action(kmc_data, label)
  /\ IF kmc_pc = "sample_by_count"
       THEN kmc_pc' = "by_count" /\ kmc_cursor' = kmc_cursor + 1
       ELSE kmc_pc' = "by_time" /\ kmc_cursor' = 0
  /\ UNCHANGED <<occ_positions, kmc_locals, n_events, time_increments_sum, n_finalize>>
  /\ UNCHANGED <<opVars, pc, occVars, runVars, setup>>

\* run_manager.increment_n_accept()
KmcIncrementNAccept ==
  /\ kmc_pc = "accept"
  /\ sampling_fixtures' =
       [l \in Labels |-> [sampling_fixtures[l] EXCEPT !.n_accept = @ + 1]]
  /\ kmc_pc' = "apply"
  /\ UNCHANGED <<kmc_data, occ_positions, kmc_locals, kmc_cursor, n_events, time_increments_sum,
                 n_finalize, sampled_at>>
  /\ UNCHANGED <<opVars, pc, occVars, runVars, setup>>

\* variant: the time of the event is computed from kmc_data.time when the
\* event is applied, after the samples were taken
KmcApplyEventLateTime ==
  /\ kmc_pc = "apply"
  /\ occ_positions' = occ_positions + 1
  /\ n_events' = n_events + 1
  /\ time_increments_sum' = time_increments_sum + kmc_locals.time_increment
  /\ kmc_data' = [kmc_data EXCEPT !.time = @ + kmc_locals.time_increment]
  /\ kmc_pc' = "set_time"
  /\ UNCHANGED <<sampling_fixtures, kmc_locals, kmc_cursor, n_finalize,
                 sampled_at>>
  /\ UNCHANGED <<opVars, pc, occVars, runVars, setup>>

\* occ_location.apply(...) and kmc_data.time = event_time
KmcApplyEvent ==
  /\ kmc_pc = "apply"
  /\ occ_positions' = occ_positions + 1
  /\ n_events' = n_events + 1
  /\ time_increments_sum' = time_increments_sum + kmc_locals.time_increment
  /\ kmc_data' = [kmc_data EXCEPT !.time = kmc_locals.event_time]
  /\ kmc_pc' = "set_time"
  /\ UNCHANGED <<sampling_fixtures, kmc_locals, kmc_cursor, n_finalize,
                 sampled_at>>
  /\ UNCHANGED <<opVars, pc, occVars, runVars, setup>>

\* run_manager.set_time(event_time)
KmcSetTime ==
  /\ kmc_pc = "set_time"
  /\ sampling_fixtures' =
       [l \in Labels |->
          [sampling_fixtures[l] EXCEPT !.time = kmc_locals.event_time]]
  /\ kmc_pc' = "increment_step"
  /\ UNCHANGED <<kmc_data, occ_positions, kmc_locals, kmc_cursor, n_events, time_increments_sum,
                 n_finalize, sampled_at>>
  /\ UNCHANGED <<opVars, pc, occVars, runVars, setup>>

\* run_manager.increment_step()
KmcIncrementStep ==
  /\ kmc_pc = "increment_step"
  /\ sampling_fixtures' =
       [l \in Labels |->
          [sampling_fixtures[l] EXCEPT !.step = @ + 1, !.count = @ + 1]]
  /\ kmc_pc' = "test"
  /\ UNCHANGED <<kmc_data, occ_positions, kmc_locals, kmc_cursor, n_events, time_increments_sum,
                 n_finalize, sampled_at>>
  /\ UNCHANGED <<opVars, pc, occVars, runVars, setup>>

\* run_manager.finalize(state)
KmcFinalize ==
  /\ kmc_pc = "finalize"
  /\ n_finalize' = n_finalize + 1
  /\ kmc_pc' = "done"
  /\ UNCHANGED <<kmc_data, sampling_fixtures, occ_positions, kmc_locals,
                 kmc_cursor, n_events, time_increments_sum, sampled_at>>
  /\ UNCHANGED <<opVars, pc, occVars, runVars, setup>>

NextKMC ==
  \/ KmcBegin
  \/ KmcLoopTest
  \/ KmcSelectEvent
  \/ KmcSampleByCountIfDue
  \/ KmcSampleByTimeIfDue
  \/ KmcSampleData
  \/ KmcIncrementNAccept
  \/ KmcApplyEvent
  \/ KmcSetTime
  \/ KmcIncrementStep
  \/ KmcFinalize

SpecKMC == InitKMC /\ [][NextKMC]_vars

\* ----------------------------------------------------------------------
\* Properties of kinetic_monte_carlo
\* ----------------------------------------------------------------------

\* the completion check of every fixture is complete with the fixture's
\* current counters
AllFixturesComplete ==
  \A l \in Labels : fixture_is_complete(sampling_fixtures[l])

\* kinetic_monte_carlo is inside the body of its loop
InLoopBody ==
  kmc_pc \in {"select", "by_count", "sample_by_count", "by_time",
              "sample_by_time", "accept", "apply", "set_time",
              "increment_step"}

C19_Positions ==
  /\ n_finalize = (IF kmc_pc = "done" THEN 1 ELSE 0)
  /\ kmc_pc \in {"finalize", "done"} =>
       /\ run_manager_is_complete(sampling_fixtures)
       /\ AllFixturesComplete
  /\ InLoopBody => ~run_manager_is_complete(sampling_fixtures)

C19_Steps ==
  /\ kmc_pc = "test" =>
       kmc_pc' = IF \A l \in Labels : fixture_is_complete(sampling_fixtures[l])
                   THEN "finalize" ELSE "select"
  /\ kmc_pc = "select" => kmc_pc' = "by_count"
  /\ kmc_pc = "increment_step" => kmc_pc' = "test"
  /\ n_events' # n_events =>
       /\ n_events' = n_events + 1
       /\ ~run_manager_is_complete(sampling_fixtures)
       /\ n_finalize = 0
  /\ n_finalize' # n_finalize =>
       /\ run_manager_is_complete(sampling_fixtures)
       /\ AllFixturesComplete
       /\ n_events' = n_events

\* C19: kinetic_monte_carlo keeps selecting and applying events as long as
\* run_manager.is_complete() is false: a loop test that finds some fixture
\* not complete is followed by the selection of an event, and the loop body
\* is only run while is_complete() was false.  finalize is called exactly
\* once, after the last applied event; every fixture's completion check is
\* complete when finalize is called, and no event is applied once all
\* fixtures have been found complete.
C19_LoopsUntilComplete == []C19_Positions /\ [][C19_Steps]_vars

\* the call has returned after three events
C19_Witness ==
  /\ kmc_pc = "done"
  /\ n_finalize = 1
  /\ n_events = 3
  /\ AllFixturesComplete

\* C20: whenever a sampling fixture f is sampled inside kinetic_monte_carlo,
\* kmc_data.prev_time[f] is the time at which f took its previous sample in
\* this call, or 0 if f has not yet sampled in this call, whatever kmc_data
\* held before the call, and kmc_data.prev_atom_positions_cart[f] is the atom
\* positions recorded at that same instant.
C20_PrevSampleData ==
  kmc_pc \in {"sample_by_count", "sample_by_time"} =>
    LET f == kmc_data.sampling_fixture_label
    IN  /\ f = FixtureLabels[kmc_cursor]
        /\ kmc_data.prev_time[f] = sampled_at[f].time
        /\ kmc_data.prev_atom_positions_cart[f] =
             sampled_at[f].atom_positions_cart

\* the fixture whose sample_data is running
SampledFixture == sampling_fixtures[FixtureLabels[kmc_cursor]]

\* C21: while a fixture is being sampled inside kinetic_monte_carlo,
\* kmc_data.time equals that fixture's next_sample_time if the fixture
\* samples BY_TIME, and equals the time of the last applied event (the time
\* set_time gave the fixtures, 0 before the first event) if the fixture
\* samples by step or pass.
C21_TimeWhileSampling ==
  kmc_pc \in {"sample_by_count", "sample_by_time"} =>
    /\ kmc_data.sampling_fixture_label = FixtureLabels[kmc_cursor]
    /\ (kmc_pc = "sample_by_time") = (SampledFixture.sample_mode = "BY_TIME")
    /\ kmc_data.time = IF SampledFixture.sample_mode = "BY_TIME"
                         THEN SampledFixture.next_sample_time
                         ELSE SampledFixture.time

\* a BY_TIME fixture is sampled at a scheduled time that lies strictly
\* between the last applied event and the selected one
C21_Witness ==
  /\ kmc_pc = "sample_by_time"
  /\ n_events > 0
  /\ SampledFixture.time < kmc_data.time
  /\ kmc_data.time < kmc_locals.event_time

\* the counters of every fixture at each position of the loop: what has
\* been done in the current iteration and what has not
C31_Counters ==
  kmc_pc \notin {"idle", "begin"} =>
    \A l \in Labels :
      LET f == sampling_fixtures[l]
      IN  /\ f.n_reject = 0
          /\ f.step = f.count
          /\ kmc_pc \in {"test", "finalize", "done"} =>
               /\ f.n_accept = f.step
               /\ occ_positions = f.step
               /\ f.time = kmc_data.time
          /\ kmc_pc \in {"select", "by_count", "sample_by_count", "by_time",
                         "sample_by_time", "accept"} =>
               /\ f.n_accept = f.step
               /\ occ_positions = f.step
          /\ kmc_pc \in {"sample_by_count", "sample_by_time"} =>
               /\ kmc_data.total_rate = kmc_locals.total_rate
               /\ kmc_data.atom_positions_cart = f.step
          /\ kmc_pc = "apply" =>
               /\ f.n_accept = f.step + 1
               /\ occ_positions = f.step
          /\ kmc_pc = "set_time" =>
               /\ f.n_accept = f.step + 1
               /\ occ_positions = f.step + 1
               /\ kmc_data.time = kmc_locals.event_time
          /\ kmc_pc = "increment_step" =>
               /\ f.n_accept = f.step + 1
               /\ occ_positions = f.step + 1
               /\ f.time = kmc_locals.event_time

\* the order of the calls of one iteration
C31_Order ==
  /\ kmc_pc' \in {"by_count", "sample_by_count"} =>
       kmc_pc \in {"select", "by_count", "sample_by_count"}
  /\ kmc_pc \in {"by_time", "sample_by_time"} =>
       kmc_pc' \in {"by_time", "sample_by_time", "accept"}
  /\ kmc_pc = "accept" => kmc_pc' \in {"accept", "apply"}
  /\ kmc_pc = "apply" => kmc_pc' \in {"apply", "set_time"}
  /\ kmc_pc = "set_time" => kmc_pc' \in {"set_time", "increment_step"}
  /\ kmc_pc = "increment_step" => kmc_pc' \in {"increment_step", "test"}
  /\ \A l \in Labels :
       sampling_fixtures'[l].n_samples # sampling_fixtures[l].n_samples =>
         /\ kmc_pc \in {"sample_by_count", "sample_by_time"}
         /\ occ_positions' = occ_positions

\* C31: in each iteration of the kinetic_monte_carlo loop the due samples
\* (by count first, then by time) are taken before the selected event is
\* applied, using the total_rate read before the event was selected; the
\* iteration then performs exactly one increment_n_accept, one
\* OccLocation::apply, one set_time(event_time) and one increment_step, in
\* that order, and n_reject is never incremented.
C31_IterationOrder == []C31_Counters /\ [][C31_Order]_vars

\* in the second iteration a fixture was sampled by count and another is
\* being sampled by time, with the total rate of this iteration
C31_Witness ==
  /\ kmc_pc = "sample_by_time"
  /\ n_events = 1
  /\ sampling_fixtures["a"].sample_mode = "BY_STEP"
  /\ sampling_fixtures["a"].n_samples = 1
  /\ sampled_at["a"].atom_positions_cart = 1
  /\ kmc_data.total_rate = 2
  /\ kmc_locals.total_rate = 2

\* kinetic_monte_carlo is at the top of an iteration of its loop
AtLoopTop == kmc_pc \in {"test", "select"}

\* C32: at the top of every kinetic_monte_carlo loop iteration
\* kmc_data.time equals the sum of the time increments of all events applied
\* so far (0.0 before the first), so the event times passed to set_time are
\* non-decreasing whenever every time_increment >= 0; the overwrite of
\* kmc_data.time made while sampling a BY_TIME fixture never changes the
\* event_time of the current or any later event.
C32_TimeIsSumOfIncrements ==
  /\ AtLoopTop => kmc_data.time = time_increments_sum
  /\ kmc_pc \in {"by_count", "sample_by_count", "by_time", "sample_by_time",
                 "accept", "apply"} =>
       kmc_locals.event_time = time_increments_sum + kmc_locals.time_increment
  /\ kmc_pc \in {"set_time", "increment_step"} =>
       /\ kmc_locals.event_time = time_increments_sum
       /\ \A l \in Labels :
            sampling_fixtures[l].time <= kmc_locals.event_time

\* a BY_TIME sample has overwritten kmc_data.time with a time before the
\* event's, and the next iteration starts from the event's time
C32_Witness ==
  /\ kmc_pc = "select"
  /\ n_events = 2
  /\ time_increments_sum = 3
  /\ kmc_data.time = 3
  /\ \E l \in Labels :
       /\ sampling_fixtures[l].sample_mode = "BY_TIME"
       /\ sampling_fixtures[l].n_samples > 0
       /\ kmc_data.prev_time[l] < kmc_data.time
       /\ kmc_data.prev_time[l] > 0

\* ----------------------------------------------------------------------
\* Setup of a run: parsing of parameters from JSON, construction of a
\* StateSampler from SamplingParams, requested-precision helpers and
\* make_analysis.  A JSON object is a function from the keys it holds to
\* their values; a parser (InputParser) collects errors as pairs
\* <<key, what>>, is valid while it and its subparsers hold none, and holds a
\* value only once one has been assigned.
\* ----------------------------------------------------------------------

\* a JSON object with the one key k
Field(k, v) == [x \in {k} |-> v]

\* the JSON object with the keys of f and of g
Merge(f, g) ==
  [x \in DOMAIN f \cup DOMAIN g |-> IF x \in DOMAIN g THEN g[x] ELSE f[x]]

\* a key that may be missing, or hold one of the values
OptionalField(k, values) == {EmptyMap} \cup {Field(k, v) : v \in values}

\* the keys of the sampling-function map, and the component names of each
\* function
SamplingFunctionNames == {"a", "b"}

component_names(name) == IF name = "a" THEN <<"x", "y">> ELSE <<"z">>

\* values of "period" on both sides of the two limits
Periods == {R(0 - 1), R(0), <<1, 2>>, R(1), R(2)}

\* values of "quantities"
QuantityLists == {<<>>, <<"a">>, <<"b", "a">>, <<"a", "zz">>, <<"zz", "yy">>}

SamplingJsons ==
  { Merge(Merge(sb, sp), Merge(p, q)) :
      sb \in OptionalField("sample_by", {"pass", "step", "time", "foo"}),
      sp \in OptionalField("spacing", {"linear", "log", "foo"}),
      p \in OptionalField("period", Periods),
      q \in OptionalField("quantities", QuantityLists) }

\* SamplingParams as default constructed
SamplingParamsDefault ==
  [sample_mode |-> "BY_PASS", sample_method |-> "LINEAR", begin |-> R(0),
   period |-> R(1), samples_per_period |-> R(1), shift |-> R(0),
   stochastic_sample_period |-> FALSE, sampler_names |-> <<>>,
   do_sample_trajectory |-> FALSE, do_sample_time |-> FALSE]

\* parser.optional(x, key): the value at key, or x as it was
optional(json, key, x) == IF key \in DOMAIN json THEN json[key] ELSE x

\* the elements of a sequence
Range(seq) == {seq[i] : i \in DOMAIN seq}

\* variant: a period is rejected only below the limit, not at it
period_errors_strict(is_log, _period) ==
  (IF is_log /\ RLess(_period, R(1)) THEN {<<"period", "log">>} ELSE {})
  \cup (IF ~is_log /\ RLess(_period, R(0))
          THEN {<<"period", "linear">>} ELSE {})

\* the two checks of a period against the spacing
period_errors(is_log, _period) ==
  (IF is_log /\ RLeq(_period, R(1)) THEN {<<"period", "log">>} ELSE {})
  \cup (IF ~is_log /\ RLeq(_period, R(0))
          THEN {<<"period", "linear">>} ELSE {})

\* variant: "time" is accepted whatever time_sampling_allowed is
sample_by_errors_time_always(sample_by, time_sampling_allowed) ==
  IF sample_by \in {"pass", "step", "time"}
    THEN {} ELSE {<<"sample_by", sample_by>>}

\* the errors recorded for the value of "sample_by"
sample_by_errors(sample_by, time_sampling_allowed) ==
  IF \/ sample_by = "pass"
     \/ sample_by = "step"
     \/ time_sampling_allowed /\ sample_by = "time"
    THEN {} ELSE {<<"sample_by", sample_by>>}

\* variant: the names in "quantities" are not looked up
quantities_errors_none(sampler_names, sampling_function_names) == {}

\* one error for each name in "quantities" that is no sampling function
quantities_errors(sampler_names, sampling_function_names) ==
  { <<"quantities", name>> : name \in Range(sampler_names) \ sampling_function_names }

\* variant: the value is assigned whatever errors were recorded
parser_valid_always(errors) == TRUE

\* parser.valid()
parser_valid(errors) == errors = {}

\* variant: do_sample_time left as default constructed
parse_SamplingParams_default_time(json, sampling_function_names, time_sampling_allowed) ==
  IF "sample_by" \notin DOMAIN json
    THEN [errors |-> {<<"sample_by", "(missing)">>}, has_value |-> FALSE,
          value |-> SamplingParamsDefault]
    ELSE
      LET sample_by == json["sample_by"]
          spacing == optional(json, "spacing", "linear")
          sampling_params ==
            [SamplingParamsDefault EXCEPT
               !.sample_mode =
                  IF sample_by = "pass" THEN "BY_PASS"
                  ELSE IF sample_by = "step" THEN "BY_STEP"
                  ELSE IF time_sampling_allowed /\ sample_by = "time"
                    THEN "BY_TIME" ELSE @,
               !.sample_method =
                  IF spacing = "linear" THEN "LINEAR"
                  ELSE IF spacing = "log" THEN "LOG" ELSE @,
               !.begin = optional(json, "begin", @),
               !.period = optional(json, "period", @),
               !.samples_per_period = optional(json, "samples_per_period", @),
               !.shift = optional(json, "shift", @),
               !.stochastic_sample_period =
                  optional(json, "stochastic_sample_period", @),
               !.sampler_names = optional(json, "quantities", @),
               !.do_sample_trajectory = optional(json, "sample_trajectory", @)]
          errors ==
            sample_by_errors(sample_by, time_sampling_allowed)
            \cup (IF spacing \in {"linear", "log"}
                    THEN {} ELSE {<<"spacing", spacing>>})
            \cup (IF "period" \in DOMAIN json
                    THEN {} ELSE {<<"period", "(missing)">>})
            \cup period_errors(sampling_params.sample_method = "LOG",
                               sampling_params.period)
            \cup quantities_errors(sampling_params.sampler_names,
                                   sampling_function_names)
      IN  [errors |-> errors, has_value |-> parser_valid(errors),
           value |-> sampling_params]

\* parse(InputParser<SamplingParams>): the errors recorded and the value
\* the parser holds afterwards, if any
parse_SamplingParams(json, sampling_function_names, time_sampling_allowed) ==
  IF "sample_by" \notin DOMAIN json
    THEN [errors |-> {<<"sample_by", "(missing)">>}, has_value |-> FALSE,
          value |-> SamplingParamsDefault]
    ELSE
      LET sample_by == json["sample_by"]
          spacing == optional(json, "spacing", "linear")
          sampling_params ==
            [SamplingParamsDefault EXCEPT
               !.sample_mode =
                  IF sample_by = "pass" THEN "BY_PASS"
                  ELSE IF sample_by = "step" THEN "BY_STEP"
                  ELSE IF time_sampling_allowed /\ sample_by = "time"
                    THEN "BY_TIME" ELSE @,
               !.sample_method =
                  IF spacing = "linear" THEN "LINEAR"
                  ELSE IF spacing = "log" THEN "LOG" ELSE @,
               !.begin = optional(json, "begin", @),
               !.period = optional(json, "period", @),
               !.samples_per_period = optional(json, "samples_per_period", @),
               !.shift = optional(json, "shift", @),
               !.stochastic_sample_period =
                  optional(json, "stochastic_sample_period", @),
               !.sampler_names = optional(json, "quantities", @),
               !.do_sample_trajectory = optional(json, "sample_trajectory", @),
               !.do_sample_time = time_sampling_allowed]
          errors ==
            sample_by_errors(sample_by, time_sampling_allowed)
            \cup (IF spacing \in {"linear", "log"}
                    THEN {} ELSE {<<"spacing", spacing>>})
            \cup (IF "period" \in DOMAIN json
                    THEN {} ELSE {<<"period", "(missing)">>})
            \cup period_errors(sampling_params.sample_method = "LOG",
                               sampling_params.period)
            \cup quantities_errors(sampling_params.sampler_names,
                                   sampling_function_names)
      IN  [errors |-> errors, has_value |-> parser_valid(errors),
           value |-> sampling_params]

\* the calls of parse(InputParser<SamplingParams>) that are made
SamplingParseCalls ==
  { [call |-> "parse_SamplingParams", returned |-> FALSE, json |-> j,
     time_sampling_allowed |-> t] :
      j \in SamplingJsons, t \in BOOLEAN }

ParseSamplingParams ==
  /\ setup.call = "parse_SamplingParams"
  /\ ~setup.returned
  /\ setup' = [call |-> setup.call, returned |-> TRUE, json |-> setup.json,
               time_sampling_allowed |-> setup.time_sampling_allowed,
               result |-> parse_SamplingParams(
                            setup.json, SamplingFunctionNames,
                            setup.time_sampling_allowed)]
  /\ UNCHANGED <<opVars, pc, occVars, runVars, kmcVars>>

\* ----------------------------------------------------------------------
\* parse(InputParser<CompletionCheckParams<BasicStatistics>>).  An error is
\* a pair <<path, what>>, the path being the sequence of keys and array
\* indices that leads to the option.  requested_precision is a map whose
\* keys are ordered by (sampler_name, component_index): an entry is
\* <<sampler_name, component_index>> |-> [component_name, precision].
\* ----------------------------------------------------------------------

\* width of Index and of size_t in the model (64 in the build)
IndexBits == 8

\* variant: the conversion keeps the sign
to_size_t_signed(index) == index

\* the conversion of an Index to size_t that a comparison of the two makes
to_size_t(index) == index % (2 ^ IndexBits)

Infinity == <<1, 0>>

\* RequestedPrecision(): no convergence required
RequestedPrecisionDefault ==
  [abs_convergence_is_required |-> FALSE, abs_precision |-> Infinity,
   rel_convergence_is_required |-> FALSE, rel_precision |-> Infinity]

\* RequestedPrecision::abs(value)
RequestedPrecisionAbs(value) ==
  [RequestedPrecisionDefault EXCEPT !.abs_convergence_is_required = TRUE,
                                    !.abs_precision = value]

\* std::pair<SamplerComponent, RequestedPrecision>: its key and its entry
ComponentKey(sampler_name, component_index) ==
  <<sampler_name, component_index>>

\* component_names[component_index]; outside the range of the vector the
\* read is undefined and never made
component_name_at(sampler_name, component_index) ==
  IF component_index + 1 \in DOMAIN component_names(sampler_name)
    THEN component_names(sampler_name)[component_index + 1]
    ELSE "(undefined)"

ComponentEntry(sampler_name, component_index, precision) ==
  [component_name |-> component_name_at(sampler_name, component_index),
   precision |-> precision]

\* the state of a parser while it parses "convergence": the errors recorded
\* and the requested_precision built
ParserState(errors, requested_precision) ==
  [errors |-> errors, requested_precision |-> requested_precision]

\* index < 0 || index >= size, size being a size_t
index_out_of_range(index, size) == index < 0 \/ to_size_t(index) >= size

RECURSIVE _parse_component_index(_, _, _, _, _, _)
\* the indices component_index[k], ... of a convergence entry
_parse_component_index(acc, option, name, precision, component_index, k) ==
  IF k > Len(component_index) THEN acc
  ELSE LET index == component_index[k]
           size == Len(component_names(name))
       IN  _parse_component_index(
             IF index_out_of_range(index, size)
               THEN ParserState(
                      acc.errors \cup
                        {<<option \o <<"component_index">>, "out of range">>},
                      acc.requested_precision)
               ELSE ParserState(
                      acc.errors,
                      Emplace(acc.requested_precision,
                              ComponentKey(name, index),
                              ComponentEntry(name, index, precision))),
             option, name, precision, component_index, k + 1)

\* std::find in the component names: the index of the first component with
\* the name, or the number of components
find_component(name, component_name) ==
  LET names == component_names(name)
      found == {i \in DOMAIN names : names[i] = component_name}
  IN  IF found = {} THEN Len(names)
      ELSE (CHOOSE i \in found : \A j \in found : i <= j) - 1

RECURSIVE _parse_component_name(_, _, _, _, _, _)
\* the names component_name[k], ... of a convergence entry
_parse_component_name(acc, option, name, precision, component_name, k) ==
  IF k > Len(component_name) THEN acc
  ELSE LET index == find_component(name, component_name[k])
       IN  _parse_component_name(
             IF index = Len(component_names(name))
               THEN ParserState(
                      acc.errors \cup
                        {<<option \o <<"component_name">>, "not valid">>},
                      acc.requested_precision)
               ELSE ParserState(
                      acc.errors,
                      Emplace(acc.requested_precision,
                              ComponentKey(name, index),
                              ComponentEntry(name, index, precision))),
             option, name, precision, component_name, k + 1)

RECURSIVE emplace_all_components(_, _, _, _)
\* every component of the function from index on
emplace_all_components(requested_precision, name, precision, index) ==
  IF index >= Len(component_names(name)) THEN requested_precision
  ELSE emplace_all_components(
         Emplace(requested_precision, ComponentKey(name, index),
                 ComponentEntry(name, index, precision)),
         name, precision, index + 1)

\* variant: an entry with both component_index and component_name is
\* parsed by index
_parse_components_index_first(acc, option, entry, name, precision) ==
  IF "component_index" \in DOMAIN entry
    THEN _parse_component_index(acc, option, name, precision,
                                entry["component_index"], 1)
    ELSE IF "component_name" \in DOMAIN entry
      THEN _parse_component_name(acc, option, name, precision,
                                 entry["component_name"], 1)
      ELSE ParserState(acc.errors,
                       emplace_all_components(acc.requested_precision, name,
                                              precision, 0))

\* the components one convergence entry selects
_parse_components(acc, option, entry, name, precision) ==
  LET has_index == "component_index" \in DOMAIN entry
      has_name == "component_name" \in DOMAIN entry
  IN  IF has_index /\ has_name
        THEN ParserState(acc.errors \cup {<<option, "both">>},
                         acc.requested_precision)
      ELSE IF has_index
        THEN _parse_component_index(acc, option, name, precision,
                                    entry["component_index"], 1)
      ELSE IF has_name
        THEN _parse_component_name(acc, option, name, precision,
                                   entry["component_name"], 1)
      ELSE ParserState(acc.errors,
                       emplace_all_components(acc.requested_precision, name,
                                              precision, 0))

\* the sampling function an entry names, if there is one
_parse_quantity(acc, option, entry, sampling_functions) ==
  IF "quantity" \notin DOMAIN entry
    THEN [errors |-> acc.errors \cup {<<option \o <<"quantity">>, "(missing)">>},
          found |-> FALSE, name |-> ""]
    ELSE IF entry["quantity"] \notin sampling_functions
      THEN [errors |-> acc.errors \cup
                         {<<option \o <<entry["quantity"]>>, "not a sampling option">>},
            found |-> FALSE, name |-> ""]
      ELSE [errors |-> acc.errors, found |-> TRUE, name |-> entry["quantity"]]

RECURSIVE _parse_convergence_criteria(_, _, _, _)
\* the entries convergence[i], ... (i counts from 0)
_parse_convergence_criteria(acc, convergence, sampling_functions, i) ==
  IF i >= Len(convergence) THEN acc
  ELSE LET option == <<"convergence", i>>
           entry == convergence[i + 1]
           function == _parse_quantity(acc, option, entry, sampling_functions)
       IN  _parse_convergence_criteria(
             IF ~function.found
               THEN ParserState(function.errors, acc.requested_precision)
               ELSE _parse_components(
                      ParserState(function.errors, acc.requested_precision),
                      option, entry, function.name,
                      RequestedPrecisionAbs(entry["precision"])),
             convergence, sampling_functions, i + 1)

\* CompletionCheckParams as default constructed
CompletionCheckParamsDefault ==
  CompletionCheckParams(
    CutoffCheckParams(None, None, None, None, None, None, None, None),
    EmptyMap, FALSE, R(0), R(10), R(1), R(1))

\* parse(InputParser<CompletionCheckParams<BasicStatistics>>): the errors
\* recorded (those of the "cutoff" subparser are given) and the value the
\* parser holds afterwards, if any
parse_CompletionCheckParams(json, cutoff_errors, sampling_functions) ==
  LET criteria ==
        IF "convergence" \in DOMAIN json
          THEN _parse_convergence_criteria(
                 ParserState({}, EmptyMap), json["convergence"],
                 sampling_functions, 0)
          ELSE ParserState({}, EmptyMap)
      spacing == optional(json, "spacing", "linear")
      completion_check_params ==
        [CompletionCheckParamsDefault EXCEPT
           !.requested_precision = criteria.requested_precision,
           !.log_spacing = IF spacing = "linear" THEN FALSE
                           ELSE IF spacing = "log" THEN TRUE ELSE @,
           !.check_period = optional(json, "period", R(10))]
      errors ==
        cutoff_errors
        \cup criteria.errors
        \cup (IF spacing \in {"linear", "log"}
                THEN {} ELSE {<<<<"spacing">>, spacing>>})
        \cup { <<<<e[1]>>, e[2]>> :
                 e \in period_errors(completion_check_params.log_spacing,
                                     completion_check_params.check_period) }
  IN  [errors |-> errors, has_value |-> parser_valid(errors),
       value |-> completion_check_params]

\* selections of components in a convergence entry
ComponentSelections ==
  { EmptyMap,
    Field("component_index", <<0>>),
    Field("component_index", <<1, 5>>),
    Field("component_index", <<0 - 1>>),
    Field("component_name", <<"y">>),
    Field("component_name", <<"y", "q">>),
    Merge(Field("component_index", <<0>>), Field("component_name", <<"x">>)) }

ConvergenceEntries ==
  { Merge(Merge(q, Field("precision", R(p))), c) :
      q \in OptionalField("quantity", {"a", "zz"}),
      p \in {1, 2},
      c \in ComponentSelections }

\* the entries that come first in a "convergence" array of two entries
FirstConvergenceEntries ==
  { e \in ConvergenceEntries :
      /\ "quantity" \in DOMAIN e
      /\ e["quantity"] = "a"
      /\ e["precision"] = R(1)
      /\ "component_name" \notin DOMAIN e
      /\ "component_index" \in DOMAIN e => e["component_index"] = <<0>> }

ConvergenceArrays ==
  {<<>>} \cup {<<e>> : e \in ConvergenceEntries}
         \cup {<<e1, e2>> : e1 \in FirstConvergenceEntries,
                            e2 \in ConvergenceEntries}

CompletionJsons ==
  { Merge(Merge(sp, p), c) :
      sp \in OptionalField("spacing", {"linear", "log", "foo"}),
      p \in OptionalField("period", Periods),
      c \in OptionalField("convergence", ConvergenceArrays) }

\* what the "cutoff" subparser may have recorded
CutoffErrors == {{}, {<<<<"cutoff", "count", "min">>, "not an int">>}}

\* the calls of parse(InputParser<CompletionCheckParams>) that are made
CompletionParseCalls ==
  { [call |-> "parse_CompletionCheckParams", returned |-> FALSE, json |-> j,
     cutoff_errors |-> c] :
      j \in CompletionJsons, c \in CutoffErrors }

ParseCompletionCheckParams ==
  /\ setup.call = "parse_CompletionCheckParams"
  /\ ~setup.returned
  /\ setup' = [call |-> setup.call, returned |-> TRUE, json |-> setup.json,
               cutoff_errors |-> setup.cutoff_errors,
               result |-> parse_CompletionCheckParams(
                            setup.json, setup.cutoff_errors,
                            SamplingFunctionNames)]
  /\ UNCHANGED <<opVars, pc, occVars, runVars, kmcVars>>

\* the body of StateSampler::StateSampler(engine, sampling_params,
\* sampling_functions): sampling_functions.at(name) throws for a name that
\* is no key, and then no object exists
populate_functions(sampler_names, sampling_functions) ==
  IF \E k \in DOMAIN sampler_names : sampler_names[k] \notin sampling_functions
    THEN [throws |-> TRUE, functions |-> <<>>, samplers |-> {}]
    ELSE [throws |-> FALSE, functions |-> sampler_names,
          samplers |-> Range(sampler_names)]

\* the constructions of a StateSampler from SamplingParams that are made
ConstructorCalls ==
  { [call |-> "StateSampler", returned |-> FALSE, sampler_names |-> q] :
      q \in QuantityLists \cup {<<"a", "a">>} }

ConstructStateSampler ==
  /\ setup.call = "StateSampler"
  /\ ~setup.returned
  /\ setup' = [call |-> setup.call, returned |-> TRUE,
               sampler_names |-> setup.sampler_names,
               result |-> populate_functions(setup.sampler_names,
                                             SamplingFunctionNames)]
  /\ UNCHANGED <<opVars, pc, occVars, runVars, kmcVars>>

\* ----------------------------------------------------------------------
\* Requested-precision helpers
\* ----------------------------------------------------------------------

\* bound on the number of calls chained on one RequestedPrecisionConstructor
MaxChain == 3

\* component indices and precisions the helpers are called with
ComponentIndices == {0 - 1, 0, 1, 2, 5}

PrecisionValues == {R(1), R(2)}

\* set_abs_precision_by_component_index: whether it throws, and
\* component_map afterwards
set_abs_precision_by_component_index(component_map, sampling_functions, sampler_name, component_index, value) ==
  IF sampler_name \notin sampling_functions
    THEN [throws |-> TRUE, component_map |-> component_map]
  ELSE IF to_size_t(component_index) >= Len(component_names(sampler_name))
    THEN [throws |-> TRUE, component_map |-> component_map]
  ELSE [throws |-> FALSE,
        component_map |->
          Emplace(component_map, ComponentKey(sampler_name, component_index),
                  ComponentEntry(sampler_name, component_index,
                                 RequestedPrecisionAbs(value)))]

\* the maps set_abs_precision_by_component_index is called with
ComponentMaps ==
  { EmptyMap,
    Field(ComponentKey("a", 1),
          ComponentEntry("a", 1, RequestedPrecisionAbs(R(1)))) }

SetAbsPrecisionCalls ==
  { [call |-> "set_abs_precision_by_component_index", returned |-> FALSE,
     component_map |-> cm, sampler_name |-> n, component_index |-> i,
     value |-> v] :
      cm \in ComponentMaps, n \in {"a", "b", "zz"}, i \in ComponentIndices,
      v \in PrecisionValues }

SetAbsPrecisionByComponentIndex ==
  /\ setup.call = "set_abs_precision_by_component_index"
  /\ ~setup.returned
  /\ setup' = [setup EXCEPT !.returned = TRUE] @@
              Field("result",
                    set_abs_precision_by_component_index(
                      setup.component_map, SamplingFunctionNames,
                      setup.sampler_name, setup.component_index, setup.value))
  /\ UNCHANGED <<opVars, pc, occVars, runVars, kmcVars>>

RECURSIVE set_abs_precision_from(_, _, _, _)
\* the loop of set_abs_precision over component_names, from component_index
set_abs_precision_from(component_map, sampler_name, component_index, value) ==
  IF component_index >= Len(component_names(sampler_name)) THEN component_map
  ELSE set_abs_precision_from(
         Emplace(component_map, ComponentKey(sampler_name, component_index),
                 ComponentEntry(sampler_name, component_index,
                                RequestedPrecisionAbs(value))),
         sampler_name, component_index + 1, value)

\* set_abs_precision: whether it throws, and component_map afterwards
set_abs_precision(component_map, sampling_functions, sampler_name, value) ==
  IF sampler_name \notin sampling_functions
    THEN [throws |-> TRUE, component_map |-> component_map]
    ELSE [throws |-> FALSE,
          component_map |->
            set_abs_precision_from(component_map, sampler_name, 0, value)]

\* set_abs_precision_by_component_name: whether it throws, and
\* component_map afterwards (the first component of that name is added)
set_abs_precision_by_component_name(component_map, sampling_functions, sampler_name, component_name, value) ==
  IF sampler_name \notin sampling_functions
    THEN [throws |-> TRUE, component_map |-> component_map]
    ELSE
      LET names == component_names(sampler_name)
          found == {i \in DOMAIN names : names[i] = component_name}
      IN  IF found = {}
            THEN [throws |-> TRUE, component_map |-> component_map]
            ELSE
              LET component_index ==
                    (CHOOSE i \in found : \A j \in found : i <= j) - 1
              IN  [throws |-> FALSE,
                   component_map |->
                     Emplace(component_map,
                             ComponentKey(sampler_name, component_index),
                             ComponentEntry(sampler_name, component_index,
                                            RequestedPrecisionAbs(value)))]

\* the calls of set_abs_precision and set_abs_precision_by_component_name
\* that are made
SetAbsPrecisionAllCalls ==
  { [call |-> "set_abs_precision", returned |-> FALSE,
     component_map |-> cm, sampler_name |-> n, value |-> v] :
      cm \in ComponentMaps, n \in {"a", "b", "zz"}, v \in PrecisionValues }

SetAbsPrecisionByNameCalls ==
  { [call |-> "set_abs_precision_by_component_name", returned |-> FALSE,
     component_map |-> cm, sampler_name |-> n, component_name |-> c,
     value |-> v] :
      cm \in ComponentMaps, n \in {"a", "b", "zz"}, c \in {"x", "y", "q"},
      v \in PrecisionValues }

SetAbsPrecision ==
  /\ setup.call = "set_abs_precision"
  /\ ~setup.returned
  /\ setup' = [setup EXCEPT !.returned = TRUE] @@
              Field("result",
                    set_abs_precision(
                      setup.component_map, SamplingFunctionNames,
                      setup.sampler_name, setup.value))
  /\ UNCHANGED <<opVars, pc, occVars, runVars, kmcVars>>

SetAbsPrecisionByComponentName ==
  /\ setup.call = "set_abs_precision_by_component_name"
  /\ ~setup.returned
  /\ setup' = [setup EXCEPT !.returned = TRUE] @@
              Field("result",
                    set_abs_precision_by_component_name(
                      setup.component_map, SamplingFunctionNames,
                      setup.sampler_name, setup.component_name, setup.value))
  /\ UNCHANGED <<opVars, pc, occVars, runVars, kmcVars>>

RECURSIVE construct_requested_precision(_, _, _)
\* RequestedPrecisionConstructor::RequestedPrecisionConstructor: one entry
\* for every component of the sampler, from index i on
construct_requested_precision(requested_precision, sampler_name, i) ==
  IF i >= Len(component_names(sampler_name)) THEN requested_precision
  ELSE construct_requested_precision(
         Emplace(requested_precision, ComponentKey(sampler_name, i),
                 ComponentEntry(sampler_name, i, RequestedPrecisionDefault)),
         sampler_name, i + 1)

\* variant: the selected component starts again from the default precision
select_component_default(requested_precision, sampler_name, component_index) ==
  IF ComponentKey(sampler_name, component_index) \notin DOMAIN requested_precision
    THEN [throws |-> TRUE, requested_precision |-> requested_precision]
    ELSE [throws |-> FALSE,
          requested_precision |->
            Field(ComponentKey(sampler_name, component_index),
                  ComponentEntry(sampler_name, component_index,
                                 RequestedPrecisionDefault))]

\* chosen = requested_precision.at(component); clear; emplace(component,
\* chosen): at throws when the component is not in the map
select_component(requested_precision, sampler_name, component_index) ==
  IF ComponentKey(sampler_name, component_index) \notin DOMAIN requested_precision
    THEN [throws |-> TRUE, requested_precision |-> requested_precision]
    ELSE [throws |-> FALSE,
          requested_precision |->
            Field(ComponentKey(sampler_name, component_index),
                  [component_name |->
                     component_name_at(sampler_name, component_index),
                   precision |->
                     requested_precision[
                       ComponentKey(sampler_name, component_index)].precision])]

\* RequestedPrecisionConstructor::component(Index component_index)
component_by_index(requested_precision, sampler_name, component_index) ==
  IF to_size_t(component_index) >= Len(component_names(sampler_name))
    THEN [throws |-> TRUE, requested_precision |-> requested_precision]
    ELSE select_component(requested_precision, sampler_name, component_index)

\* RequestedPrecisionConstructor::component(std::string component_name)
component_by_name(requested_precision, sampler_name, component_name) ==
  LET component_index == find_component(sampler_name, component_name)
  IN  IF component_index = Len(component_names(sampler_name))
        THEN [throws |-> TRUE, requested_precision |-> requested_precision]
        ELSE select_component(requested_precision, sampler_name,
                              component_index)

\* RequestedPrecisionConstructor::abs_precision(value)
abs_precision(requested_precision, value) ==
  [throws |-> FALSE,
   requested_precision |->
     [key \in DOMAIN requested_precision |->
        [requested_precision[key] EXCEPT
           !.precision.abs_convergence_is_required = TRUE,
           !.precision.abs_precision = value]]]

\* the calls of converge(samplers, sampler_name) that are made; the
\* samplers are those of the sampling functions
ConvergeCalls ==
  { [call |-> "converge", returned |-> FALSE, sampler_name |-> n,
     throws |-> FALSE, requested_precision |-> EmptyMap, n_chained |-> 0,
     chained |-> "", argument |-> <<>>, before |-> EmptyMap] :
      n \in {"a", "b", "zz"} }

\* converge(samplers, sampler_name)
Converge ==
  /\ setup.call = "converge"
  /\ ~setup.returned
  /\ setup' = [setup EXCEPT
                 !.returned = TRUE,
                 !.throws = setup.sampler_name \notin SamplingFunctionNames,
                 !.requested_precision =
                    IF setup.sampler_name \in SamplingFunctionNames
                      THEN construct_requested_precision(
                             EmptyMap, setup.sampler_name, 0)
                      ELSE EmptyMap]
  /\ UNCHANGED <<opVars, pc, occVars, runVars, kmcVars>>

\* one more call can be made on the RequestedPrecisionConstructor that
\* converge returned
CanChain ==
  /\ setup.call = "converge"
  /\ setup.returned
  /\ ~setup.throws
  /\ setup.n_chained < MaxChain

\* the RequestedPrecisionConstructor after one more call
chain(name, argument, outcome) ==
  [setup EXCEPT !.throws = outcome.throws,
                !.requested_precision = outcome.requested_precision,
                !.n_chained = @ + 1,
                !.chained = name,
                !.argument = argument,
                !.before = setup.requested_precision]

ComponentByIndex ==
  /\ CanChain
  /\ \E i \in ComponentIndices :
       setup' = chain("component_by_index", <<i>>,
                      component_by_index(setup.requested_precision,
                                         setup.sampler_name, i))
  /\ UNCHANGED <<opVars, pc, occVars, runVars, kmcVars>>

ComponentByName ==
  /\ CanChain
  /\ \E n \in {"x", "y", "q"} :
       setup' = chain("component_by_name", <<n>>,
                      component_by_name(setup.requested_precision,
                                        setup.sampler_name, n))
  /\ UNCHANGED <<opVars, pc, occVars, runVars, kmcVars>>

AbsPrecision ==
  /\ CanChain
  /\ \E v \in PrecisionValues :
       setup' = chain("abs_precision", <<v>>,
                      abs_precision(setup.requested_precision, v))
  /\ UNCHANGED <<opVars, pc, occVars, runVars, kmcVars>>

\* a setup call is about to be made
\* ----------------------------------------------------------------------
\* make_analysis
\* ----------------------------------------------------------------------

\* a vector of n equal values (Eigen::VectorXd::Constant)
VectorXd_Constant(n, value) == [i \in 1 .. n |-> value]

\* the double that is not a number
NaN == <<0, 0>>

\* the keys of analysis_functions, in the order a std::map iterates them
AnalysisKeys == <<"f", "g">>

\* what a call of an analysis function does: return its value, throw
\* an exception derived from std::exception, or throw something else
Outcomes == {"value", "std_exception", "other_exception"}

\* a ResultsAnalysisFunction, with what its function does when called
ResultsAnalysisFunction(_name, _component_names, _value, _outcome) ==
  [name |-> _name, component_names |-> _component_names, value |-> _value,
   outcome |-> _outcome]

\* the analysis functions stored under one key
AnalysisFunctionsAt(key) ==
  { ResultsAnalysisFunction(
      n, c, VectorXd_Constant(Len(c), IF key = "f" THEN R(1) ELSE R(2)), o) :
      n \in Range(AnalysisKeys), c \in {<<"0">>, <<"0", "1">>},
      o \in Outcomes }

\* the maps make_analysis is called with
AnalysisFunctionMaps ==
  { Field("f", f) : f \in AnalysisFunctionsAt("f") }
    \cup { Field("g", g) : g \in AnalysisFunctionsAt("g") }
    \cup { Merge(Field("f", f), Field("g", g)) :
             f \in AnalysisFunctionsAt("f"), g \in AnalysisFunctionsAt("g") }

\* the loop of make_analysis from the k-th key on: whether an exception
\* leaves make_analysis, and the map it returns otherwise
RECURSIVE make_analysis_from(_, _, _)
make_analysis_from(analysis_functions, analysis, k) ==
  IF k > Len(AnalysisKeys) THEN [throws |-> FALSE, analysis |-> analysis]
  ELSE IF AnalysisKeys[k] \notin DOMAIN analysis_functions
    THEN make_analysis_from(analysis_functions, analysis, k + 1)
  ELSE LET f == analysis_functions[AnalysisKeys[k]]
       IN  IF f.outcome = "value"
             THEN make_analysis_from(
                    analysis_functions, Emplace(analysis, f.name, f.value),
                    k + 1)
           ELSE IF f.outcome = "std_exception"
             THEN make_analysis_from(
                    analysis_functions,
                    Emplace(analysis, f.name,
                            VectorXd_Constant(Len(f.component_names), NaN)),
                    k + 1)
           ELSE [throws |-> TRUE, analysis |-> EmptyMap]

make_analysis(analysis_functions) ==
  make_analysis_from(analysis_functions, EmptyMap, 1)

MakeAnalysisCalls ==
  { [call |-> "make_analysis", returned |-> FALSE, analysis_functions |-> m] :
      m \in AnalysisFunctionMaps }

MakeAnalysis ==
  /\ setup.call = "make_analysis"
  /\ ~setup.returned
  /\ setup' = [call |-> setup.call, returned |-> TRUE,
               analysis_functions |-> setup.analysis_functions,
               result |-> make_analysis(setup.analysis_functions)]
  /\ UNCHANGED <<opVars, pc, occVars, runVars, kmcVars>>

\* ----------------------------------------------------------------------
\* stochastic_count_step, draw by draw, in a StateSampler constructed from
\* parsed SamplingParams
\* ----------------------------------------------------------------------

\* largest dn the loop of stochastic_count_step is followed to
MaxDn == 3

\* inputs with "stochastic_sample_period": true and sampling by count
StochasticJsons ==
  { Merge(Merge(Merge(Field("stochastic_sample_period", TRUE), sb),
                Merge(sp, p)),
          Merge(spp, q)) :
      sb \in {Field("sample_by", "pass"), Field("sample_by", "step")},
      sp \in OptionalField("spacing", {"log"}),
      p \in {Field("period", <<1, 2>>), Field("period", R(2))},
      spp \in OptionalField("samples_per_period", {R(0), R(0 - 1), R(2)}),
      q \in OptionalField("quantities", {<<"a">>}) }

\* the parameters of the StateSampler are those of a parsed SamplingParams
ConstructedFrom(sampling_params) ==
  /\ sample_mode = sampling_params.sample_mode
  /\ sample_method = sampling_params.sample_method
  /\ begin = sampling_params.begin
  /\ period = sampling_params.period
  /\ samples_per_period = sampling_params.samples_per_period
  /\ shift = sampling_params.shift
  /\ stochastic_sample_period = sampling_params.stochastic_sample_period
  /\ do_sample_trajectory = sampling_params.do_sample_trajectory
  /\ do_sample_time = sampling_params.do_sample_time
  /\ functions = sampling_params.sampler_names
  /\ Constructed

\* sample_at(sample_index) has called stochastic_count_step(rate)
InitDraw ==
  /\ \E json \in StochasticJsons, t \in BOOLEAN :
       LET parsed == parse_SamplingParams(json, SamplingFunctionNames, t)
       IN  /\ parsed.has_value
           /\ parsed.value.sample_method = "LOG" =>
                parsed.value.samples_per_period \in {R(1), R(0 - 1)}
           /\ ConstructedFrom(parsed.value)
  /\ \E sample_index \in 1..2 :
       setup = [call |-> "stochastic_count_step", returned |-> FALSE,
                sample_index |-> sample_index,
                sample_rate |-> sample_rate_at(sample_index), dn |-> 1]
  /\ pc = "free"
  /\ OccIdle
  /\ RunIdle
  /\ KmcIdle

\* variant: a draw equal to sample_rate ends the loop
CountStepReturnLeq ==
  /\ setup.call = "stochastic_count_step"
  /\ ~setup.returned
  /\ \E draw \in DrawValues : RLeq(draw, setup.sample_rate)
  /\ setup' = [setup EXCEPT !.returned = TRUE]
  /\ UNCHANGED <<opVars, pc, occVars, runVars, kmcVars>>

\* if (random_real(max) < sample_rate) return dn;
CountStepReturn ==
  /\ setup.call = "stochastic_count_step"
  /\ ~setup.returned
  /\ \E draw \in DrawValues : RLess(draw, setup.sample_rate)
  /\ setup' = [setup EXCEPT !.returned = TRUE]
  /\ UNCHANGED <<opVars, pc, occVars, runVars, kmcVars>>

\* ++dn; (followed up to MaxDn, where the loop goes on in the same state)
CountStepIncrement ==
  /\ setup.call = "stochastic_count_step"
  /\ ~setup.returned
  /\ \E draw \in DrawValues : ~RLess(draw, setup.sample_rate)
  /\ setup' = [setup EXCEPT !.dn = IF @ < MaxDn THEN @ + 1 ELSE @]
  /\ UNCHANGED <<opVars, pc, occVars, runVars, kmcVars>>

NextDraw == CountStepReturn \/ CountStepIncrement

\* the loop keeps running, and every value of random_real keeps being
\* drawn: a draw that is possible at every iteration is eventually made
SpecDraw ==
  /\ InitDraw
  /\ [][NextDraw]_vars
  /\ WF_setup(CountStepIncrement)
  /\ WF_setup(CountStepReturn)

\* ----------------------------------------------------------------------
\* A StateSampler constructed from parsed SamplingParams, its operations
\* called in any order
\* ----------------------------------------------------------------------

\* inputs of the parse whose SamplingParams a StateSampler is constructed
\* from (log spacing with one sample per period)
ParsedJsons ==
  { json \in
      { Merge(Merge(sb, sp), Merge(Merge(p, spp), q)) :
          sb \in {Field("sample_by", m) : m \in {"pass", "step", "time"}},
          sp \in OptionalField("spacing", {"log"}),
          p \in {Field("period", R(1)), Field("period", R(2))},
          spp \in OptionalField("samples_per_period", {R(2)}),
          q \in OptionalField("quantities", {<<"a">>}) } :
      optional(json, "spacing", "linear") = "log" =>
        "samples_per_period" \notin DOMAIN json }

\* parse(parser, sampling_function_names, time_sampling_allowed) has left a
\* value, and the StateSampler is constructed from it
InitParsed ==
  /\ \E json \in ParsedJsons, t \in BOOLEAN :
       LET parsed == parse_SamplingParams(json, SamplingFunctionNames, t)
       IN  /\ parsed.has_value
           /\ ConstructedFrom(parsed.value)
           /\ setup = [call |-> "parse_SamplingParams", returned |-> TRUE,
                       json |-> json, time_sampling_allowed |-> t,
                       result |-> parsed]
  /\ pc = "parsed"
  /\ OccIdle
  /\ RunIdle
  /\ KmcIdle

SpecParsed == InitParsed /\ [][Next]_vars

InitSetup ==
  /\ setup \in SamplingParseCalls \cup CompletionParseCalls
                \cup ConstructorCalls \cup SetAbsPrecisionCalls
                \cup SetAbsPrecisionAllCalls \cup SetAbsPrecisionByNameCalls
                \cup ConvergeCalls \cup MakeAnalysisCalls
  /\ SamplerIdle
  /\ OccIdle
  /\ RunIdle
  /\ KmcIdle

NextSetup ==
  \/ ParseSamplingParams
  \/ ParseCompletionCheckParams
  \/ ConstructStateSampler
  \/ SetAbsPrecisionByComponentIndex
  \/ SetAbsPrecision
  \/ SetAbsPrecisionByComponentName
  \/ Converge
  \/ ComponentByIndex
  \/ ComponentByName
  \/ AbsPrecision
  \/ MakeAnalysis

SpecSetup == InitSetup /\ [][NextSetup]_vars

\* ----------------------------------------------------------------------
\* Properties of the setup calls
\* ----------------------------------------------------------------------

SamplingParsed == setup.call = "parse_SamplingParams" /\ setup.returned

CompletionParsed == setup.call = "parse_CompletionCheckParams" /\ setup.returned

C23_SampleByTime ==
  (SamplingParsed /\ "sample_by" \in DOMAIN setup.json) =>
    LET sample_by == setup.json["sample_by"]
        rejected == /\ \E e \in setup.result.errors : e[1] = "sample_by"
                    /\ ~setup.result.has_value
        accepted_as(mode) ==
          /\ \A e \in setup.result.errors : e[1] # "sample_by"
          /\ setup.result.value.sample_mode = mode
    IN  /\ sample_by = "time" =>
             IF setup.time_sampling_allowed
               THEN accepted_as("BY_TIME") ELSE rejected
        /\ sample_by = "pass" => accepted_as("BY_PASS")
        /\ sample_by = "step" => accepted_as("BY_STEP")
        /\ sample_by \notin {"pass", "step", "time"} => rejected

\* "time" is rejected although everything else is in order
C23_Witness ==
  /\ SamplingParsed
  /\ ~setup.time_sampling_allowed
  /\ setup.json = Merge(Field("sample_by", "time"), Field("period", R(2)))
  /\ setup.result.errors = {<<"sample_by", "time">>}
  /\ ~setup.result.has_value

\* the spacing and the period of the parsed input, where both are given (a
\* missing "spacing" is "linear")
GivenSpacing == optional(setup.json, "spacing", "linear")

PeriodGiven ==
  /\ "period" \in DOMAIN setup.json
  /\ GivenSpacing \in {"linear", "log"}

\* the period is within the rejected range of the spacing
PeriodTooSmall ==
  RLeq(setup.json["period"], IF GivenSpacing = "log" THEN R(1) ELSE R(0))

SamplingPeriodError ==
  \E e \in setup.result.errors : e[1] = "period" /\ e[2] # "(missing)"

CompletionPeriodError ==
  \E e \in setup.result.errors : e[1] = <<"period">>

UnknownQuantity(entry) ==
  /\ "quantity" \in DOMAIN entry
  /\ entry["quantity"] \notin SamplingFunctionNames

\* what the completion-check parser does with names that are no sampling
\* function: an error for the entry, and the requested_precision that the
\* other entries alone give
UnknownQuantityRejected ==
  CompletionParsed /\ "convergence" \in DOMAIN setup.json =>
    LET convergence == setup.json["convergence"]
        others == SelectSeq(convergence, LAMBDA e : ~UnknownQuantity(e))
    IN  /\ \A k \in DOMAIN convergence :
             UnknownQuantity(convergence[k]) =>
               /\ \E e \in setup.result.errors :
                    e[1] = <<"convergence", k - 1, convergence[k]["quantity"]>>
               /\ ~setup.result.has_value
        /\ setup.result.value.requested_precision =
             _parse_convergence_criteria(
               ParserState({}, EmptyMap), others, SamplingFunctionNames, 0
             ).requested_precision
        /\ \A key \in DOMAIN setup.result.value.requested_precision :
             key[1] \in SamplingFunctionNames

\* constructing a StateSampler with a name that is no sampling function
\* fails
UnknownSamplerFails ==
  (setup.call = "StateSampler" /\ setup.returned) =>
    /\ Range(setup.sampler_names) \ SamplingFunctionNames # {}
         => setup.result.throws
    /\ ~setup.result.throws =>
         /\ setup.result.functions = setup.sampler_names
         /\ setup.result.samplers \subseteq SamplingFunctionNames

UnknownNames ==
  Range(setup.json["quantities"]) \ SamplingFunctionNames

InRange(name, index) == index \in 0 .. Len(component_names(name)) - 1

\* the entry names a sampling function
KnownQuantity(entry) ==
  /\ "quantity" \in DOMAIN entry
  /\ entry["quantity"] \in SamplingFunctionNames

SetAbsPrecisionReturned ==
  setup.call = "set_abs_precision_by_component_index" /\ setup.returned

\* the last call chained on the RequestedPrecisionConstructor
Chained(name) ==
  /\ setup.call = "converge"
  /\ setup.returned
  /\ setup.n_chained > 0
  /\ setup.chained = name

\* C26: a component index outside [0, number of components), including a
\* negative index, is always rejected: the JSON parser records an error and
\* adds no entry for that index, while set_abs_precision_by_component_index
\* and RequestedPrecisionConstructor::component(index) throw and leave the
\* requested-precision map exactly as it was.
C26_IndexOutOfRangeRejected ==
  /\ (CompletionParsed /\ "convergence" \in DOMAIN setup.json) =>
       LET convergence == setup.json["convergence"]
       IN  /\ \A k \in DOMAIN convergence :
                LET entry == convergence[k]
                IN  ( /\ KnownQuantity(entry)
                      /\ "component_index" \in DOMAIN entry
                      /\ "component_name" \notin DOMAIN entry
                      /\ \E index \in Range(entry["component_index"]) :
                           ~InRange(entry["quantity"], index) )
                    => /\ \E e \in setup.result.errors :
                            e[1] = <<"convergence", k - 1, "component_index">>
                       /\ ~setup.result.has_value
           /\ \A key \in DOMAIN setup.result.value.requested_precision :
                InRange(key[1], key[2])
  /\ ( /\ SetAbsPrecisionReturned
       /\ setup.sampler_name \in SamplingFunctionNames
       /\ ~InRange(setup.sampler_name, setup.component_index) )
     => /\ setup.result.throws
        /\ setup.result.component_map = setup.component_map
  /\ ( /\ Chained("component_by_index")
       /\ ~InRange(setup.sampler_name, setup.argument[1]) )
     => /\ setup.throws
        /\ setup.requested_precision = setup.before

\* set_abs_precision_by_component_index has thrown for the index -1 and a
\* map that holds an entry
C26_Witness ==
  /\ SetAbsPrecisionReturned
  /\ setup.sampler_name = "a"
  /\ setup.component_index = 0 - 1
  /\ setup.component_map # EmptyMap
  /\ setup.result.throws
  /\ setup.result.component_map = setup.component_map

\* the components a convergence entry lists that are components of its
\* quantity
Selected(entry) ==
  IF ~KnownQuantity(entry) THEN {}
  ELSE LET name == entry["quantity"]
           has_index == "component_index" \in DOMAIN entry
           has_name == "component_name" \in DOMAIN entry
       IN  IF has_index /\ has_name THEN {}
           ELSE IF has_index
             THEN { ComponentKey(name, index) :
                      index \in { i \in Range(entry["component_index"]) :
                                    InRange(name, i) } }
           ELSE IF has_name
             THEN { ComponentKey(name, index) :
                      index \in { i \in 0 .. Len(component_names(name)) - 1 :
                                    component_names(name)[i + 1] \in
                                      Range(entry["component_name"]) } }
           ELSE { ComponentKey(name, index) :
                    index \in 0 .. Len(component_names(name)) - 1 }

\* C27: a convergence entry that gives both component_index and
\* component_name is rejected with an error and adds no component to
\* requested_precision; an entry with only one of them adds exactly the
\* listed valid components.
C27_IndexOrName ==
  (CompletionParsed /\ "convergence" \in DOMAIN setup.json) =>
    LET convergence == setup.json["convergence"]
        requested_precision == setup.result.value.requested_precision
    IN  /\ \A k \in DOMAIN convergence :
             ( /\ KnownQuantity(convergence[k])
               /\ "component_index" \in DOMAIN convergence[k]
               /\ "component_name" \in DOMAIN convergence[k] )
             => /\ <<<<"convergence", k - 1>>, "both">> \in setup.result.errors
                /\ ~setup.result.has_value
        /\ DOMAIN requested_precision =
             UNION { Selected(convergence[k]) : k \in DOMAIN convergence }
        /\ \A key \in DOMAIN requested_precision :
             requested_precision[key].component_name =
               component_names(key[1])[key[2] + 1]
        /\ Len(convergence) = 1 =>
             \A key \in DOMAIN requested_precision :
               requested_precision[key].precision =
                 RequestedPrecisionAbs(convergence[1]["precision"])

\* an entry with both selections is the only thing wrong with the input
C27_Witness ==
  /\ CompletionParsed
  /\ "convergence" \in DOMAIN setup.json
  /\ Len(setup.json["convergence"]) = 1
  /\ setup.result.errors = {<<<<"convergence", 0>>, "both">>}
  /\ setup.result.value.requested_precision = EmptyMap
  /\ ~setup.result.has_value

\* C28: a convergence entry with neither component_index nor component_name
\* adds every component of the named quantity (indices 0 .. n_components-1,
\* each with its component name) to requested_precision with that entry's
\* precision.
C28_AllComponents ==
  (CompletionParsed /\ "convergence" \in DOMAIN setup.json) =>
    LET convergence == setup.json["convergence"]
        requested_precision == setup.result.value.requested_precision
    IN  \A k \in DOMAIN convergence :
          ( /\ KnownQuantity(convergence[k])
            /\ "component_index" \notin DOMAIN convergence[k]
            /\ "component_name" \notin DOMAIN convergence[k] )
          => \A index \in 0 .. Len(component_names(convergence[k]["quantity"])) - 1 :
               LET key == ComponentKey(convergence[k]["quantity"], index)
               IN  /\ key \in DOMAIN requested_precision
                   /\ requested_precision[key] =
                        ComponentEntry(
                          convergence[k]["quantity"], index,
                          RequestedPrecisionAbs(convergence[k]["precision"]))

\* C29: make_analysis returns one entry for every analysis function: the
\* function's value when it succeeds, and a vector of NaNs of length
\* component_names.size() when it throws; a failing function neither makes
\* make_analysis fail nor changes or suppresses the entries of the other
\* functions.
C29_OneEntryPerFunction ==
  (setup.call = "make_analysis" /\ setup.returned) =>
    LET analysis_functions == setup.analysis_functions
        analysis == setup.result.analysis
    IN  /\ ~setup.result.throws
        /\ Cardinality(DOMAIN analysis) = Cardinality(DOMAIN analysis_functions)
        /\ \A key \in DOMAIN analysis_functions :
             LET f == analysis_functions[key]
             IN  /\ f.name \in DOMAIN analysis
                 /\ analysis[f.name] =
                      IF f.outcome = "value" THEN f.value
                      ELSE VectorXd_Constant(Len(f.component_names), NaN)

\* C30: converge(samplers, name) yields a map with one entry per component
\* of the named sampler, none of them requiring convergence; component(i) or
\* component(component_name) then reduces the map to exactly that one
\* component and keeps the precision settings made before the selection, so
\* selecting a component and setting a precision give the same map in either
\* order.
C30_SelectAndSetCommute ==
  (setup.call = "converge" /\ setup.returned /\ ~setup.throws) =>
    LET name == setup.sampler_name
        requested_precision == setup.requested_precision
    IN  /\ setup.n_chained = 0 =>
             /\ DOMAIN requested_precision =
                  { ComponentKey(name, i) :
                      i \in 0 .. Len(component_names(name)) - 1 }
             /\ \A key \in DOMAIN requested_precision :
                  requested_precision[key] =
                    ComponentEntry(name, key[2], RequestedPrecisionDefault)
        /\ (Chained("component_by_index") \/ Chained("component_by_name")) =>
             LET index == IF setup.chained = "component_by_index"
                            THEN setup.argument[1]
                            ELSE find_component(name, setup.argument[1])
                 key == ComponentKey(name, index)
             IN  /\ DOMAIN requested_precision = {key}
                 /\ requested_precision[key] = setup.before[key]
        /\ \A v \in PrecisionValues :
             /\ \A i \in ComponentIndices :
                  LET selected == component_by_index(requested_precision, name, i)
                      set == abs_precision(requested_precision, v).requested_precision
                  IN  ~selected.throws =>
                        abs_precision(selected.requested_precision, v)
                          = component_by_index(set, name, i)
             /\ \A n \in Range(component_names(name)) :
                  LET selected == component_by_name(requested_precision, name, n)
                      set == abs_precision(requested_precision, v).requested_precision
                  IN  ~selected.throws =>
                        abs_precision(selected.requested_precision, v)
                          = component_by_name(set, name, n)

\* a precision was set on both components and then one was selected
C30_Witness ==
  /\ Chained("component_by_index")
  /\ ~setup.throws
  /\ setup.sampler_name = "a"
  /\ DOMAIN setup.before = {ComponentKey("a", 0), ComponentKey("a", 1)}
  /\ DOMAIN setup.requested_precision = {ComponentKey("a", 1)}
  /\ setup.requested_precision[ComponentKey("a", 1)].precision =
       RequestedPrecisionAbs(R(2))

CountStepCalled == setup.call = "stochastic_count_step"

RateIsPositive == setup.sample_rate \in {r \in {setup.sample_rate} : RLess(R(0), r)}

CountStepReturned == setup.returned

CountStepLoops == ~setup.returned /\ setup.dn = MaxDn

CountStepCall ==
  CountStepCalled =>
    /\ setup.sample_rate = sample_rate_at(setup.sample_index)
    /\ setup.dn >= 1
    /\ setup.returned => RateIsPositive

\* C38: stochastic_count_step(sample_rate) eventually returns, under fair
\* random draws, if and only if sample_rate > 0; for sample_rate <= 0
\* (reachable because the parser does not constrain samples_per_period) it
\* loops forever and the sample_data call that invoked it never completes.
C38_ReturnsIffRatePositive ==
  /\ []CountStepCall
  /\ (CountStepCalled /\ RateIsPositive) ~> CountStepReturned
  /\ (CountStepCalled /\ ~RateIsPositive) ~> []CountStepLoops

\* parsed "samples_per_period": 0 gives the rate 0, and the loop is still
\* running at the largest dn followed
C38_Witness ==
  /\ CountStepCalled
  /\ samples_per_period = R(0)
  /\ sample_method = "LINEAR"
  /\ setup.sample_rate = R(0)
  /\ ~setup.returned
  /\ setup.dn = MaxDn

\* C39: every SamplingParams produced by parse has do_sample_time equal to
\* time_sampling_allowed, hence sample_mode = BY_TIME implies do_sample_time,
\* so that a StateSampler constructed from parsed parameters and sampling by
\* time has one entry of sample_time per sample.
C39_ParsedTimeIsSampled ==
  (SamplingParsed /\ setup.result.has_value) =>
    LET sampling_params == setup.result.value
    IN  /\ sampling_params.do_sample_time = setup.time_sampling_allowed
        /\ sampling_params.sample_mode = "BY_TIME" =>
             sampling_params.do_sample_time
        /\ do_sample_time = sampling_params.do_sample_time
        /\ sample_mode = sampling_params.sample_mode
        /\ sample_mode = "BY_TIME" =>
             /\ do_sample_time
             /\ Len(sample_time) = Len(sample_count)

\* "sample_by": "time" was parsed, and two samples were taken by time
C39_Witness ==
  /\ SamplingParsed
  /\ setup.json["sample_by"] = "time"
  /\ setup.result.has_value
  /\ sample_mode = "BY_TIME"
  /\ status = "ok"
  /\ Len(sample_count) = 2
  /\ Len(sample_time) = 2

PrecisionHelperReturned ==
  /\ setup.call \in {"set_abs_precision",
                     "set_abs_precision_by_component_index",
                     "set_abs_precision_by_component_name"}
  /\ setup.returned

\* every entry of the map before is in the map after, unchanged
KeepsEntries(before, after) ==
  \A key \in DOMAIN before : key \in DOMAIN after /\ after[key] = before[key]

\* requested_precision after the first k entries of the array
PrecisionAfterEntries(convergence, k) ==
  _parse_convergence_criteria(
    ParserState({}, EmptyMap), SubSeq(convergence, 1, k),
    SamplingFunctionNames, 0).requested_precision

====
